---- MODULE Spec2Model ----
(***************************************************************************)
(* Labor-hire marketplace: jobs, applications and ratings as served by the *)
(* REST routes of server/routes.ts over the persistence interface IStorage *)
(* (MemStorage and DatabaseStorage).                                       *)
(*                                                                         *)
(* A request handler is an async function.  Each action below is one of   *)
(* its atomic segments: one awaited storage call together with the        *)
(* synchronous code that follows it up to the next await or the response. *)
(* A slot of req holds one request: its inputs, its position (pc), the    *)
(* locals it carries across awaits and, once answered, its response.      *)
(***************************************************************************)
EXTENDS Integers, FiniteSets, Sequences, TLC

\* ------------------------------------------------------------------ bounds
MaxJobs == 2
MaxApps == 2
MaxRatings == 3
MaxRatingsWide == 2
MaxReqs == 2
MaxUsers == 6
MaxProfiles == 2
MaxMessages == 2
MaxSockets == 2
MaxChannels == 2
MaxClock == 2
MaxSalt == 2

\* -------------------------------------------------------- schema constants
UserType == [WORKER |-> "worker", EMPLOYER |-> "employer", ADMIN |-> "admin"]

JobStatus ==
  [OPEN |-> "open", IN_PROGRESS |-> "in_progress",
   COMPLETED |-> "completed", CANCELLED |-> "cancelled"]

ApplicationStatus ==
  [PENDING |-> "pending", UNDER_REVIEW |-> "under_review",
   INTERVIEW |-> "interview", ACCEPTED |-> "accepted", REJECTED |-> "rejected"]

\* Object.values(JobStatus), Object.values(ApplicationStatus)
JobStatusValues == {JobStatus[k] : k \in DOMAIN JobStatus}
ApplicationStatusValues == {ApplicationStatus[k] : k \in DOMAIN ApplicationStatus}

\* JavaScript's undefined (a key that is not there) and SQL's NULL
Undefined == "undefined"
Null == "null"

\* ------------------------------------------------------------------- state
VARIABLES
  impl,                  \* which IStorage implementation is wired: "mem" | "db"
  session,               \* req.session.passport.user of the client that
                         \* registers and logs in: a user id, 0 when none
  users,                 \* users table: id -> [username, email, userType,
                         \*                     rating (in tenths)]
  jobs,                  \* jobs table: set of rows
  applications,          \* applications table: set of rows
  ratings,               \* ratings table: set of rows
  jobIdCounter,          \* next job id (MemStorage counter / serial column)
  applicationIdCounter,  \* next application id
  ratingIdCounter,       \* next rating id
  now,                   \* the clock read by new Date()
  req,                   \* request slots
  workerProfiles,        \* worker_profiles table: set of rows
  workerProfileIdCounter,
  messages,              \* messages table: set of rows
  notifications,         \* notifications table: set of rows
  messageIdCounter,
  notificationIdCounter,
  activeConnections,     \* Map<userId, WebSocket[]>: user id -> sequence of
                         \* socket ids
  sockets,               \* the WebSockets accepted so far: socket id ->
                         \* [readyState, userId (the handler's closure)]
  wire                   \* the frames sent over WebSockets so far, in order

profileStore == <<workerProfiles, workerProfileIdCounter>>
messageStore == <<messages, notifications, messageIdCounter, notificationIdCounter>>
store == <<users, jobs, applications, ratings,
           jobIdCounter, applicationIdCounter, ratingIdCounter,
           profileStore, messageStore>>
live == <<activeConnections, sockets, wire>>
vars == <<impl, session, users, jobs, applications, ratings,
          jobIdCounter, applicationIdCounter, ratingIdCounter, now, req,
          profileStore, messageStore, live>>

Reqs == 1..MaxReqs

\* ------------------------------------------------------------- passwords
\* randomBytes(16): the salts a hash can be made with
Salts == 1..MaxSalt

\* scryptAsync(password, salt, 64): the derived key, taken to be free of
\* collisions, is held as the pair it was derived from
scrypt(password, salt) == <<password, salt>>

\* hashPassword: `${buf.toString("hex")}.${salt}`
hashPassword(password, salt) == [hashed |-> scrypt(password, salt), salt |-> salt]

\* Mutant: only the salts of the two hashes are compared
comparePasswordsSaltOnly(supplied, stored) ==
  stored.hashed[2] = scrypt(supplied, stored.salt)[2]

\* comparePasswords: the supplied password is hashed with the stored salt
\* and compared with the stored hash
comparePasswords(supplied, stored) ==
  stored.hashed = scrypt(supplied, stored.salt)

\* The password of the initial accounts and of the register bodies that
\* name no other
InitialPassword == "secret"

\* The registered accounts of the initial state: two workers, two employers.
Workers == {1, 2}
Employers == {3, 4}
Anonymous == 0

NoBody == [none |-> TRUE]
NoResponse == [code |-> 0, msg |-> "", fields |-> {}, body |-> NoBody]
IdleReq ==
  [op |-> "none", pc |-> "idle", user |-> Anonymous, id |-> 0,
   arg |-> NoBody, loc |-> 0, res |-> NoResponse]

Init ==
  /\ impl \in {"mem", "db"}
  /\ session = 0
  /\ users = [u \in Workers \cup Employers |->
                [username |-> u, email |-> u,
                 password |-> hashPassword(InitialPassword, 1),
                 userType |-> IF u \in Workers THEN UserType.WORKER
                                               ELSE UserType.EMPLOYER,
                 rating |-> 0]]
  /\ jobs = {}
  /\ applications = {}
  /\ ratings = {}
  /\ jobIdCounter = 1
  /\ applicationIdCounter = 1
  /\ ratingIdCounter = 1
  /\ now = 0
  /\ req = [r \in Reqs |-> IdleReq]
  /\ workerProfiles = {}
  /\ workerProfileIdCounter = 1
  /\ messages = {}
  /\ notifications = {}
  /\ messageIdCounter = 1
  /\ notificationIdCounter = 1
  /\ activeConnections = <<>>
  /\ sockets = <<>>
  /\ wire = <<>>

\* ----------------------------------------------------- request bookkeeping
\* req.isAuthenticated(): the session carries a user of the users table
isAuthenticated(u) == u \in DOMAIN users

InFlight(r) == req[r].pc \notin {"idle", "done"}

\* A request can start while another is between two awaits only if some
\* await really yields to the event loop: DatabaseStorage's queries do,
\* MemStorage's promises resolve in the same macrotask.
MayBegin(r) ==
  /\ req[r].pc = "idle"
  /\ impl = "mem" => \A q \in Reqs \ {r} : ~InFlight(q)

\* The slot of a request that has just arrived
Start(op, u, id, arg) ==
  [IdleReq EXCEPT !.op = op, !.user = u, !.id = id, !.arg = arg]

\* res.status(code).json(...): the request is answered
Answer(s, code, msg, fields, body) ==
  [s EXCEPT !.pc = "done",
            !.res = [code |-> code, msg |-> msg,
                     fields |-> fields, body |-> body]]

\* The handler suspends at its next await, keeping the local loc
Await(s, pc, loc) == [s EXCEPT !.pc = pc, !.loc = loc]

\* The client reads the response; the slot is free for the next request.
Recycle(r) ==
  /\ req[r].pc = "done"
  /\ req' = [req EXCEPT ![r] = IdleReq]
  /\ UNCHANGED <<impl, session, store, live, now>>

\* ----------------------------------------------------------- storage: users
\* The id the next user gets: users are never deleted, so the counter
\* (userIdCounter, the serial of users.id) is one past their number.
userIdCounter == Cardinality(DOMAIN users) + 1

getUserByUsername(username) == {u \in DOMAIN users : users[u].username = username}
getUserByEmail(email) == {u \in DOMAIN users : users[u].email = email}

\* MemStorage.createUser: { ...insertUser, id, rating: 0, ... }
memCreateUser(data) ==
  [username |-> data.username, email |-> data.email,
   password |-> data.password,
   userType |-> data.userType, rating |-> 0]

\* DatabaseStorage.createUser: INSERT INTO users VALUES (insertUser); a
\* column the payload does not name gets its default
dbCreateUser(data) ==
  [username |-> data.username, email |-> data.email,
   password |-> data.password,
   userType |-> data.userType,
   rating |-> IF "rating" \in data.keys THEN data.rating ELSE 0]

\* users.username and users.email are UNIQUE
userUniqueKeysHold(row) ==
  /\ getUserByUsername(row.username) = {}
  /\ getUserByEmail(row.email) = {}

\* ------------------------------------------------------ routes: registration
\* insertUserSchema.safeParse(req.body): username, password, email, fullName,
\* phoneNumber and userType are required; keys it does not know are ignored
validUserBody(body) ==
  {"username", "password", "email", "userType"} \subseteq body.keys

\* POST /api/register, up to the await of storage.getUserByUsername
RegisterBegin(r, body) ==
  /\ MayBegin(r)
  /\ LET s == Start("register", Anonymous, 0, body)
     IN
     req' = [req EXCEPT ![r] =
       IF ~validUserBody(body)
         THEN Answer(s, 400, "Validation error", {}, NoBody)
       ELSE Await(s, "getUserByUsername", 0)]
  /\ UNCHANGED <<impl, session, store, live, now>>

\* storage.getUserByUsername(req.body.username)
RegisterCheckUsername(r) ==
  /\ req[r].pc = "getUserByUsername"
  /\ req' = [req EXCEPT ![r] =
       IF getUserByUsername(req[r].arg.username) # {}
         THEN Answer(req[r], 400, "Username already exists", {}, NoBody)
       ELSE Await(req[r], "getUserByEmail", 0)]
  /\ UNCHANGED <<impl, session, store, live, now>>

\* storage.getUserByEmail(req.body.email)
RegisterCheckEmail(r) ==
  /\ req[r].pc = "getUserByEmail"
  /\ req' = [req EXCEPT ![r] =
       IF getUserByEmail(req[r].arg.email) # {}
         THEN Answer(req[r], 400, "Email already exists", {}, NoBody)
       ELSE Await(req[r], "createUser", 0)]
  /\ UNCHANGED <<impl, session, store, live, now>>

\* hashPassword(req.body.password) with the salt that randomBytes gave,
\* storage.createUser({ ...req.body, password }), req.login and
\* res.status(201).json(user); a failed insert goes to next(error)
RegisterCreateSalted(r, salt) ==
  /\ req[r].pc = "createUser"
  /\ userIdCounter <= MaxUsers
  /\ LET s == req[r]
         id == userIdCounter
         data == [s.arg EXCEPT !.password = hashPassword(s.arg.password, salt)]
         row == IF impl = "mem" THEN memCreateUser(data)
                                ELSE dbCreateUser(data)
     IN
     IF impl = "db" /\ ~userUniqueKeysHold(row) THEN
       /\ req' = [req EXCEPT ![r] =
                    Answer(s, 500, "Internal Server Error", {}, NoBody)]
       /\ UNCHANGED <<users, session>>
     ELSE
       /\ users' = [u \in DOMAIN users \cup {id} |->
                      IF u = id THEN row ELSE users[u]]
       /\ session' = id
       /\ req' = [req EXCEPT ![r] =
                    Answer([s EXCEPT !.user = id], 201, "", {}, row)]
  /\ UNCHANGED <<impl, live, profileStore, messageStore, jobs, applications, ratings,
                 jobIdCounter, applicationIdCounter, ratingIdCounter, now>>

\* The same where nobody logs in: no step looks at the stored password,
\* and one salt stands for all
RegisterCreate(r) ==
  /\ req[r].pc = "createUser"
  /\ RegisterCreateSalted(r, 1)

\* ------------------------------------------------------- routes: the session
\* POST /api/login, up to the await of storage.getUserByUsername in the
\* LocalStrategy.  passport-local fails at once when username or password
\* is missing; the route answers 401 to every failure and calls neither
\* req.login nor req.logout, so that the session stays as it is.
LoginBegin(r, body) ==
  /\ MayBegin(r)
  /\ LET s == Start("login", session, 0, body)
     IN
     req' = [req EXCEPT ![r] =
       IF ~({"username", "password"} \subseteq body.keys)
         THEN Answer(s, 401, "Invalid credentials", {}, NoBody)
       ELSE Await(s, "login.getUserByUsername", 0)]
  /\ UNCHANGED <<impl, session, store, live, now>>

\* storage.getUserByUsername(username), comparePasswords(password,
\* user.password), then req.login(user), req.session.save and
\* res.status(200).json(user), or 401
LoginAuthenticate(r) ==
  /\ req[r].pc = "login.getUserByUsername"
  /\ LET s == req[r]
         found == getUserByUsername(s.arg.username)
     IN
     IF \E id \in found : comparePasswords(s.arg.password, users[id].password)
       THEN \E id \in found :
              /\ session' = id
              /\ req' = [req EXCEPT ![r] =
                   Answer([s EXCEPT !.user = id], 200, "", {}, users[id])]
       ELSE /\ session' = session
            /\ req' = [req EXCEPT ![r] =
                         Answer(s, 401, "Invalid credentials", {}, NoBody)]
  /\ UNCHANGED <<impl, store, live, now>>

\* POST /api/logout: req.logout and res.sendStatus(200), whether or not
\* the session was authenticated
Logout(r) ==
  /\ MayBegin(r)
  /\ session' = 0
  /\ req' = [req EXCEPT ![r] =
       Answer(Start("logout", session, 0, NoBody), 200, "", {}, NoBody)]
  /\ UNCHANGED <<impl, store, live, now>>

\* GET /api/user: 401 unless req.isAuthenticated(), else req.user, the row
\* that deserializeUser got from storage.getUser(id)
GetUser(r) ==
  /\ MayBegin(r)
  /\ LET s == Start("getUser", session, 0, NoBody)
     IN
     req' = [req EXCEPT ![r] =
       IF ~isAuthenticated(session) THEN Answer(s, 401, "", {}, NoBody)
       ELSE Answer(s, 200, "", {}, users[session])]
  /\ UNCHANGED <<impl, session, store, live, now>>

\* ------------------------------------------------------------ storage: jobs
getJob(id) == {j \in jobs : j.id = id}

\* storage.createJob: an unknown status falls back to OPEN
createJobStatus(status) ==
  IF status \in JobStatusValues THEN status ELSE JobStatus.OPEN

\* storage.createJob: skills: job.skills || [].  The array of skill tags is
\* held as their set.
createJobSkills(body) == IF "skills" \in body.keys THEN body.skills ELSE {}

\* storage.updateJob(id, jobData): { ...job, ...jobData } / UPDATE ... SET
mergeJob(job, patch) ==
  [id |-> job.id,
   employerId |-> IF "employerId" \in patch.keys THEN patch.employerId
                                                  ELSE job.employerId,
   status |-> IF "status" \in patch.keys THEN patch.status ELSE job.status,
   skills |-> IF "skills" \in patch.keys THEN patch.skills ELSE job.skills]

\* jobs.employer_id REFERENCES users(id)
jobForeignKeysHold(job) == job.employerId \in DOMAIN users

\* ---------------------------------------------------- storage: applications
getApplication(id) == {a \in applications : a.id = id}

\* Mutant: the two ids compared with the wrong columns
getApplicationByJobAndWorkerSwapped(jobId, workerId) ==
  {a \in applications : a.jobId = workerId /\ a.workerId = jobId}

getApplicationByJobAndWorker(jobId, workerId) ==
  {a \in applications : a.jobId = jobId /\ a.workerId = workerId}

\* Mutant: the applications of the job are not found
getJobApplicationsNone(jobId) == {}

getJobApplications(jobId) == {a \in applications : a.jobId = jobId}

\* applications.job_id REFERENCES jobs(id), worker_id REFERENCES users(id)
applicationForeignKeysHold(app) ==
  /\ getJob(app.jobId) # {}
  /\ app.workerId \in DOMAIN users

\* MemStorage.createApplication: { ...application, id, appliedAt, updatedAt }
memCreateApplication(data, id) ==
  [id |-> id, jobId |-> data.jobId, workerId |-> data.workerId,
   coverLetter |-> IF "coverLetter" \in data.keys THEN data.coverLetter
                                                   ELSE Undefined,
   status |-> IF "status" \in data.keys THEN data.status ELSE Undefined,
   appliedAt |-> now, updatedAt |-> now]

\* DatabaseStorage.createApplication: status is forced to "pending"
dbCreateApplication(data, id) ==
  [id |-> id, jobId |-> data.jobId, workerId |-> data.workerId,
   coverLetter |-> IF "coverLetter" \in data.keys THEN data.coverLetter
                                                   ELSE Null,
   status |-> "pending",
   appliedAt |-> now, updatedAt |-> now]

\* Mutant: an updatedAt carried in the patch is kept
mergeApplicationKeepingStamp(app, patch) ==
  [id |-> app.id,
   jobId |-> IF "jobId" \in patch.keys THEN patch.jobId ELSE app.jobId,
   workerId |-> IF "workerId" \in patch.keys THEN patch.workerId
                                              ELSE app.workerId,
   coverLetter |-> IF "coverLetter" \in patch.keys THEN patch.coverLetter
                                                    ELSE app.coverLetter,
   status |-> IF "status" \in patch.keys THEN patch.status ELSE app.status,
   appliedAt |-> app.appliedAt,
   updatedAt |-> IF "updatedAt" \in patch.keys THEN patch.updatedAt ELSE now]

\* Mutant: an application that was accepted or rejected keeps its status
mergeApplicationUnlessDecided(app, patch) ==
  [id |-> app.id,
   jobId |-> IF "jobId" \in patch.keys THEN patch.jobId ELSE app.jobId,
   workerId |-> IF "workerId" \in patch.keys THEN patch.workerId
                                              ELSE app.workerId,
   coverLetter |-> IF "coverLetter" \in patch.keys THEN patch.coverLetter
                                                    ELSE app.coverLetter,
   status |-> IF "status" \in patch.keys
                 /\ app.status \notin {"accepted", "rejected"}
                THEN patch.status ELSE app.status,
   appliedAt |-> app.appliedAt,
   updatedAt |-> now]

\* storage.updateApplication: { ...application, ...applicationData, updatedAt }
mergeApplication(app, patch) ==
  [id |-> app.id,
   jobId |-> IF "jobId" \in patch.keys THEN patch.jobId ELSE app.jobId,
   workerId |-> IF "workerId" \in patch.keys THEN patch.workerId
                                              ELSE app.workerId,
   coverLetter |-> IF "coverLetter" \in patch.keys THEN patch.coverLetter
                                                    ELSE app.coverLetter,
   status |-> IF "status" \in patch.keys THEN patch.status ELSE app.status,
   appliedAt |-> app.appliedAt,
   updatedAt |-> now]

\* ------------------------------------------------------------ routes: jobs
\* insertJobSchema.parse: title, description, location and jobType are required
validJobBody(body) == "title" \in body.keys

\* POST /api/jobs
CreateJob(r, u, body) ==
  /\ MayBegin(r)
  /\ LET s == Start("createJob", u, 0, body)
         job == [id |-> jobIdCounter, employerId |-> u,
                 status |-> createJobStatus(IF "status" \in body.keys
                                            THEN body.status ELSE Undefined),
                 skills |-> createJobSkills(body)]
     IN
     IF ~isAuthenticated(u) THEN
       /\ req' = [req EXCEPT ![r] =
                    Answer(s, 401, "Unauthorized - Please log in", {}, NoBody)]
       /\ UNCHANGED <<impl, session, store, live, now>>
     ELSE IF users[u].userType # "employer" THEN
       /\ req' = [req EXCEPT ![r] =
                    Answer(s, 403, "Only employers can post jobs", {}, NoBody)]
       /\ UNCHANGED <<impl, session, store, live, now>>
     ELSE IF ~validJobBody(body) THEN
       /\ req' = [req EXCEPT ![r] =
                    Answer(s, 400, "Invalid job data", {}, NoBody)]
       /\ UNCHANGED <<impl, session, store, live, now>>
     ELSE
       /\ jobIdCounter <= MaxJobs
       /\ jobs' = jobs \cup {job}
       /\ jobIdCounter' = jobIdCounter + 1
       /\ req' = [req EXCEPT ![r] = Answer(s, 201, "", {}, job)]
       /\ UNCHANGED <<impl, session, live, profileStore, messageStore, users, applications, ratings,
                      applicationIdCounter, ratingIdCounter, now>>

\* PUT /api/jobs/:id, up to the await of storage.updateJob
UpdateJobBegin(r, u, id, patch) ==
  /\ MayBegin(r)
  /\ LET s == Start("updateJob", u, id, patch)
         job == getJob(id)
     IN
     req' = [req EXCEPT ![r] =
       IF ~isAuthenticated(u) THEN Answer(s, 401, "Unauthorized", {}, NoBody)
       ELSE IF job = {} THEN Answer(s, 404, "Job not found", {}, NoBody)
       ELSE IF \E j \in job : j.employerId # u
         THEN Answer(s, 403, "You can only update your own jobs", {}, NoBody)
       ELSE Await(s, "updateJob", 0)]
  /\ UNCHANGED <<impl, session, store, live, now>>

\* storage.updateJob(jobId, req.body) and res.json(updatedJob)
UpdateJobWrite(r) ==
  /\ req[r].pc = "updateJob"
  /\ LET s == req[r]
         job == getJob(s.id)
     IN
     IF job = {} THEN
       /\ req' = [req EXCEPT ![r] = Answer(s, 200, "", {}, NoBody)]
       /\ UNCHANGED jobs
     ELSE
       LET old == CHOOSE j \in job : TRUE
           new == mergeJob(old, s.arg)
       IN
       IF impl = "db" /\ ~jobForeignKeysHold(new) THEN
         /\ req' = [req EXCEPT ![r] =
                      Answer(s, 500, "Failed to update job", {}, NoBody)]
         /\ UNCHANGED jobs
       ELSE
         /\ jobs' = (jobs \ {old}) \cup {new}
         /\ req' = [req EXCEPT ![r] = Answer(s, 200, "", {}, new)]
  /\ UNCHANGED <<impl, session, live, profileStore, messageStore, users, applications, ratings,
                 jobIdCounter, applicationIdCounter, ratingIdCounter, now>>

\* Mutant: whoever is logged in may delete the job
DeleteJobBeginUnchecked(r, u, id) ==
  /\ MayBegin(r)
  /\ LET s == Start("deleteJob", u, id, NoBody)
         job == getJob(id)
     IN
     req' = [req EXCEPT ![r] =
       IF ~isAuthenticated(u) THEN Answer(s, 401, "Unauthorized", {}, NoBody)
       ELSE IF job = {} THEN Answer(s, 404, "Job not found", {}, NoBody)
       ELSE Await(s, "deleteJob", 0)]
  /\ UNCHANGED <<impl, session, store, live, now>>

\* DELETE /api/jobs/:id, up to the await of storage.deleteJob
DeleteJobBegin(r, u, id) ==
  /\ MayBegin(r)
  /\ LET s == Start("deleteJob", u, id, NoBody)
         job == getJob(id)
     IN
     req' = [req EXCEPT ![r] =
       IF ~isAuthenticated(u) THEN Answer(s, 401, "Unauthorized", {}, NoBody)
       ELSE IF job = {} THEN Answer(s, 404, "Job not found", {}, NoBody)
       ELSE IF \E j \in job : j.employerId # u
         THEN Answer(s, 403, "You can only delete your own jobs", {}, NoBody)
       ELSE Await(s, "deleteJob", 0)]
  /\ UNCHANGED <<impl, session, store, live, now>>

\* storage.deleteJob(id).  MemStorage removes the job and then its
\* applications without yielding; DatabaseStorage deletes the applications
\* here and the job row in a second query.
DeleteJobApplications(r) ==
  /\ req[r].pc = "deleteJob"
  /\ applications' = applications \ getJobApplications(req[r].id)
  /\ IF impl = "mem" THEN
       /\ jobs' = jobs \ getJob(req[r].id)
       /\ req' = [req EXCEPT ![r] = Answer(req[r], 204, "", {}, NoBody)]
     ELSE
       /\ req' = [req EXCEPT ![r] = Await(req[r], "deleteJobRow", 0)]
       /\ UNCHANGED jobs
  /\ UNCHANGED <<impl, session, live, profileStore, messageStore, users, ratings,
                 jobIdCounter, applicationIdCounter, ratingIdCounter, now>>

\* DatabaseStorage.deleteJob, second query: DELETE FROM jobs WHERE id = $1.
\* A row of applications or ratings that still references the job makes the
\* query fail, and the route answers 500.
DeleteJobRow(r) ==
  /\ req[r].pc = "deleteJobRow"
  /\ IF \/ getJobApplications(req[r].id) # {}
        \/ \E x \in ratings : req[r].id \in x.jobId
     THEN
       /\ req' = [req EXCEPT ![r] =
                    Answer(req[r], 500, "Failed to delete job", {}, NoBody)]
       /\ UNCHANGED jobs
     ELSE
       /\ jobs' = jobs \ getJob(req[r].id)
       /\ req' = [req EXCEPT ![r] = Answer(req[r], 204, "", {}, NoBody)]
  /\ UNCHANGED <<impl, session, live, profileStore, messageStore, users, applications, ratings,
                 jobIdCounter, applicationIdCounter, ratingIdCounter, now>>

\* ---------------------------------------------------- routes: applications
\* insertApplicationSchema.parse({ ...otherData, workerId: req.user.id }):
\* jobId is required; workerId is the session's user whatever the body says
validApplicationBody(body) == "jobId" \in body.keys

\* Mutant: a workerId in the body wins over the session's user
validatedApplicationDataFromBody(body, u) ==
  [body EXCEPT !.workerId = IF "workerId" \in body.keys THEN body.workerId ELSE u,
               !.keys = body.keys \cup {"workerId"}]

validatedApplicationData(body, u) ==
  [body EXCEPT !.workerId = u, !.keys = body.keys \cup {"workerId"}]

\* Mutant: only a cancelled job refuses applications
acceptingApplicationsUnlessCancelled(status) == status # JobStatus.CANCELLED

\* job.status !== JobStatus.OPEN && job.status !== JobStatus.IN_PROGRESS
acceptingApplications(status) ==
  status = JobStatus.OPEN \/ status = JobStatus.IN_PROGRESS

\* POST /api/applications, up to the await of getApplicationByJobAndWorker
SubmitApplicationBegin(r, u, body) ==
  /\ MayBegin(r)
  /\ LET data == validatedApplicationData(body, u)
         s == Start("submitApplication", u, 0, data)
         job == getJob(data.jobId)
     IN
     req' = [req EXCEPT ![r] =
       IF ~isAuthenticated(u) THEN Answer(s, 401, "Unauthorized", {}, NoBody)
       ELSE IF users[u].userType # "worker"
         THEN Answer(s, 403, "Only workers can apply for jobs", {}, NoBody)
       ELSE IF ~validApplicationBody(body)
         THEN Answer(s, 400, "Invalid application data", {}, NoBody)
       ELSE IF job = {} THEN Answer(s, 404, "Job not found", {}, NoBody)
       ELSE IF \E j \in job : ~acceptingApplications(j.status)
         THEN Answer(s, 400, "This job is not accepting applications", {}, NoBody)
       ELSE Await(s, "getApplicationByJobAndWorker", 0)]
  /\ UNCHANGED <<impl, session, store, live, now>>

\* storage.getApplicationByJobAndWorker and the duplicate check
SubmitApplicationCheckExisting(r) ==
  /\ req[r].pc = "getApplicationByJobAndWorker"
  /\ LET s == req[r]
         existingApplication == getApplicationByJobAndWorker(s.arg.jobId, s.user)
     IN
     req' = [req EXCEPT ![r] =
       IF existingApplication # {}
         THEN Answer(s, 400, "You have already applied for this job", {}, NoBody)
       ELSE Await(s, "createApplication", 0)]
  /\ UNCHANGED <<impl, session, store, live, now>>

\* storage.createApplication(applicationData) and res.status(201)
SubmitApplicationCreate(r) ==
  /\ req[r].pc = "createApplication"
  /\ applicationIdCounter <= MaxApps
  /\ LET s == req[r]
         app == IF impl = "mem"
                  THEN memCreateApplication(s.arg, applicationIdCounter)
                  ELSE dbCreateApplication(s.arg, applicationIdCounter)
     IN
     IF impl = "db" /\ ~applicationForeignKeysHold(app) THEN
       /\ req' = [req EXCEPT ![r] =
                    Answer(s, 500, "Failed to create application", {}, NoBody)]
       /\ UNCHANGED applications
     ELSE
       /\ applications' = applications \cup {app}
       /\ req' = [req EXCEPT ![r] = Answer(s, 201, "", {}, app)]
  /\ applicationIdCounter' = applicationIdCounter + 1
  /\ UNCHANGED <<impl, session, live, profileStore, messageStore, users, jobs, ratings, jobIdCounter, ratingIdCounter, now>>

\* Mutant: status is among the fields a worker may set
allowedFieldsWithStatus == {"coverLetter", "status"}

\* const allowedFields = ["coverLetter"]
allowedFields == {"coverLetter"}

\* Object.keys(req.body).filter(field => !allowedFields.includes(field))
invalidFields(body) == body.keys \ allowedFields

\* Mutant: the check is skipped when the job is missing
\* (job && job.employerId !== req.user.id)
employerOwnsJobOrMissing(job, u) == \A j \in job : j.employerId = u

\* job?.employerId !== req.user.id, negated
employerOwnsJob(job, u) == job # {} /\ \A j \in job : j.employerId = u

\* PUT /api/applications/:id, up to the next await: storage.getJob for an
\* employer, storage.updateApplication for anybody else
UpdateApplicationBegin(r, u, id, patch) ==
  /\ MayBegin(r)
  /\ LET s == Start("updateApplication", u, id, patch)
         application == getApplication(id)
     IN
     req' = [req EXCEPT ![r] =
       IF ~isAuthenticated(u) THEN Answer(s, 401, "Unauthorized", {}, NoBody)
       ELSE IF application = {}
         THEN Answer(s, 404, "Application not found", {}, NoBody)
       ELSE LET a == CHOOSE x \in application : TRUE IN
         IF users[u].userType = "employer" THEN Await(s, "getJob", a.jobId)
         ELSE IF users[u].userType = "worker" THEN
           IF a.workerId # u
             THEN Answer(s, 403, "You can only update your own applications",
                         {}, NoBody)
           ELSE IF invalidFields(patch) # {}
             THEN Answer(s, 403, "Workers cannot update these fields",
                         invalidFields(patch), NoBody)
           ELSE Await(s, "updateApplication", 0)
         ELSE Await(s, "updateApplication", 0)]
  /\ UNCHANGED <<impl, session, store, live, now>>

\* storage.getJob(application.jobId) and the employer's ownership check
UpdateApplicationGetJob(r) ==
  /\ req[r].pc = "getJob"
  /\ req[r].op = "updateApplication"
  /\ LET s == req[r] IN
     req' = [req EXCEPT ![r] =
       IF ~employerOwnsJob(getJob(s.loc), s.user)
         THEN Answer(s, 403, "You can only update applications for your own jobs",
                     {}, NoBody)
       ELSE Await(s, "updateApplication", 0)]
  /\ UNCHANGED <<impl, session, store, live, now>>

\* storage.updateApplication(applicationId, req.body) and res.json; loc
\* keeps the row as it was found
UpdateApplicationWrite(r) ==
  /\ req[r].pc = "updateApplication"
  /\ LET s == req[r]
         application == getApplication(s.id)
     IN
     IF application = {} THEN
       /\ req' = [req EXCEPT ![r] = Answer(s, 200, "", {}, NoBody)]
       /\ UNCHANGED applications
     ELSE
       LET old == CHOOSE x \in application : TRUE
           new == mergeApplication(old, s.arg)
       IN
       IF impl = "db" /\ ~applicationForeignKeysHold(new) THEN
         /\ req' = [req EXCEPT ![r] =
                      Answer(s, 500, "Failed to update application", {}, NoBody)]
         /\ UNCHANGED applications
       ELSE
         /\ applications' = (applications \ {old}) \cup {new}
         /\ req' = [req EXCEPT ![r] =
                      Answer(Await(s, "done", old), 200, "", {}, new)]
  /\ UNCHANGED <<impl, session, live, profileStore, messageStore, users, jobs, ratings,
                 jobIdCounter, applicationIdCounter, ratingIdCounter, now>>

\* --------------------------------------------------------- storage: ratings
\* storage.getUserRatings(userId)
getUserRatings(userId) == {x \in ratings : x.toUserId = userId}

\* userRatings.reduce((sum, r) => sum + r.rating, 0)
RECURSIVE totalRating(_)
totalRating(rows) ==
  IF rows = {} THEN 0
  ELSE LET x == CHOOSE y \in rows : TRUE
       IN x.rating + totalRating(rows \ {x})

\* Mutant: the quotient is cut after the first decimal
averageRatingTruncated(rows) == (10 * totalRating(rows)) \div Cardinality(rows)

\* parseFloat((totalRating / length).toFixed(1)), in tenths: the quotient
\* rounded to the nearest tenth, a tie going up
averageRating(rows) ==
  (2 * 10 * totalRating(rows) + Cardinality(rows)) \div (2 * Cardinality(rows))

\* storage.createRating: { ...rating, id, createdAt }.  jobId holds the job
\* the rating is scoped to, and nothing when the payload has none.
newRating(data, id) ==
  [id |-> id, fromUserId |-> data.fromUserId, toUserId |-> data.toUserId,
   jobId |-> IF "jobId" \in data.keys THEN {data.jobId} ELSE {},
   rating |-> data.rating]

\* ratings.from_user_id and to_user_id REFERENCES users(id),
\* ratings.job_id REFERENCES jobs(id)
ratingForeignKeysHold(row) ==
  /\ row.fromUserId \in DOMAIN users
  /\ row.toUserId \in DOMAIN users
  /\ \A j \in row.jobId : getJob(j) # {}

\* ---------------------------------------------------------- routes: ratings
\* insertRatingSchema.parse({ ...req.body, fromUserId: req.user.id }):
\* toUserId and rating are required integers
validRatingBody(body) == {"toUserId", "rating"} \subseteq body.keys

validatedRatingData(body, u) ==
  [body EXCEPT !.fromUserId = u, !.keys = body.keys \cup {"fromUserId"}]

\* Mutant: only the lower end of the range is checked
ratingOutOfRangeBelow(rating) == rating < 1

\* validatedData.rating < 1 || validatedData.rating > 5
ratingOutOfRange(rating) == rating < 1 \/ rating > 5

\* if (validatedData.jobId): the key is there and its value is not 0
jobIdGiven(data) == "jobId" \in data.keys /\ data.jobId # 0

\* POST /api/ratings, up to the await of storage.getJob or createRating
SubmitRatingBegin(r, u, body) ==
  /\ MayBegin(r)
  /\ LET data == validatedRatingData(body, u)
         s == Start("submitRating", u, 0, data)
     IN
     req' = [req EXCEPT ![r] =
       IF ~isAuthenticated(u) THEN Answer(s, 401, "Unauthorized", {}, NoBody)
       ELSE IF ~validRatingBody(body)
         THEN Answer(s, 400, "Invalid rating data", {}, NoBody)
       ELSE IF ratingOutOfRange(data.rating)
         THEN Answer(s, 400, "Rating must be between 1 and 5", {}, NoBody)
       ELSE IF jobIdGiven(data) THEN Await(s, "submitRating.getJob", 0)
       ELSE Await(s, "createRating", 0)]
  /\ UNCHANGED <<impl, session, store, live, now>>

\* storage.getJob(validatedData.jobId) and the checks on the job
SubmitRatingGetJob(r) ==
  /\ req[r].pc = "submitRating.getJob"
  /\ LET s == req[r]
         job == getJob(s.arg.jobId)
     IN
     req' = [req EXCEPT ![r] =
       IF job = {} THEN Answer(s, 404, "Job not found", {}, NoBody)
       ELSE IF \E j \in job : j.status # JobStatus.COMPLETED
         THEN Answer(s, 400, "Rating can only be given for completed jobs",
                     {}, NoBody)
       ELSE IF /\ users[s.user].userType = "worker"
               /\ \E j \in job : j.employerId # s.arg.toUserId
         THEN Answer(s, 403, "You can only rate employers you worked for",
                     {}, NoBody)
       ELSE IF /\ users[s.user].userType = "employer"
               /\ \E j \in job : j.employerId # s.user
         THEN Answer(s, 403, "You can only rate workers for your own jobs",
                     {}, NoBody)
       ELSE Await(s, "createRating", 0)]
  /\ UNCHANGED <<impl, session, store, live, now>>

\* storage.createRating(validatedData), the insert.  DatabaseStorage goes on
\* to its own updateUserRating (pass 1) before the route calls
\* updateUserRating (pass 2); MemStorage has only the route's.
SubmitRatingCreate(r) ==
  /\ req[r].pc = "createRating"
  /\ ratingIdCounter <= MaxRatings
  /\ LET s == req[r]
         row == newRating(s.arg, ratingIdCounter)
     IN
     IF impl = "db" /\ ~ratingForeignKeysHold(row) THEN
       /\ req' = [req EXCEPT ![r] =
                    Answer(s, 500, "Failed to create rating", {}, NoBody)]
       /\ UNCHANGED ratings
     ELSE
       /\ ratings' = ratings \cup {row}
       /\ req' = [req EXCEPT ![r] =
            [Await(s, "getUserRatings",
                   [pass |-> IF impl = "db" THEN 1 ELSE 2, average |-> 0])
               EXCEPT !.res.body = row]]
  /\ ratingIdCounter' = ratingIdCounter + 1
  /\ UNCHANGED <<impl, session, live, profileStore, messageStore, users, jobs, applications,
                 jobIdCounter, applicationIdCounter, now>>

\* The same where the requests are many: fewer ratings are created
SubmitRatingCreateWide(r) ==
  /\ ratingIdCounter <= MaxRatingsWide
  /\ SubmitRatingCreate(r)

\* What follows a pass of updateUserRating: the route's pass after
\* DatabaseStorage.createRating's own, res.status(201).json(rating) after
\* the route's
afterUpdateUserRating(s) ==
  IF s.loc.pass = 1
    THEN Await(s, "getUserRatings", [pass |-> 2, average |-> 0])
    ELSE Answer(s, 201, "", {}, s.res.body)

\* storage.updateUserRating(toUserId), the read: getUserRatings and the
\* average.  MemStorage returns early for a user it does not know, both
\* return without a write when the user has no ratings.
UpdateUserRatingRead(r) ==
  /\ req[r].pc = "getUserRatings"
  /\ LET s == req[r]
         userRatings == getUserRatings(s.arg.toUserId)
     IN
     IF \/ impl = "mem" /\ s.arg.toUserId \notin DOMAIN users
        \/ userRatings = {}
     THEN
       /\ req' = [req EXCEPT ![r] = afterUpdateUserRating(s)]
       /\ UNCHANGED users
     ELSE IF impl = "mem" THEN
       /\ users' = [users EXCEPT
                      ![s.arg.toUserId].rating = averageRating(userRatings)]
       /\ req' = [req EXCEPT ![r] = afterUpdateUserRating(s)]
     ELSE
       /\ req' = [req EXCEPT ![r] =
            Await(s, "updateUser",
                  [pass |-> s.loc.pass, average |-> averageRating(userRatings)])]
       /\ UNCHANGED users
  /\ UNCHANGED <<impl, session, live, profileStore, messageStore, jobs, applications, ratings,
                 jobIdCounter, applicationIdCounter, ratingIdCounter, now>>

\* DatabaseStorage.updateUserRating, the write:
\* updateUser(userId, { rating }), UPDATE users SET rating WHERE id = userId
UpdateUserRatingWrite(r) ==
  /\ req[r].pc = "updateUser"
  /\ LET s == req[r]
     IN
     /\ users' = IF s.arg.toUserId \in DOMAIN users
                   THEN [users EXCEPT ![s.arg.toUserId].rating = s.loc.average]
                   ELSE users
     /\ req' = [req EXCEPT ![r] = afterUpdateUserRating(s)]
  /\ UNCHANGED <<impl, session, live, profileStore, messageStore, jobs, applications, ratings,
                 jobIdCounter, applicationIdCounter, ratingIdCounter, now>>

\* -------------------------------------------------- storage: worker profiles
\* Mutant: the profile is not looked up by its user
getWorkerProfileOfAnyone(userId) ==
  {p \in workerProfiles : \A q \in workerProfiles : p.id <= q.id}

\* storage.getWorkerProfile(userId): the first profile of the user, if any
getWorkerProfile(userId) ==
  LET found == {p \in workerProfiles : p.userId = userId}
  IN {p \in found : \A q \in found : p.id <= q.id}

\* storage.getWorkerWithProfile(userId) is undefined unless the user exists
\* and is a worker
isWorker(userId) ==
  /\ userId \in DOMAIN users
  /\ users[userId].userType = UserType.WORKER

\* storage.createWorkerProfile: skills is a nullable array, held as the set
\* of its tags and a flag for NULL / undefined
newWorkerProfile(data, id) ==
  [id |-> id, userId |-> data.userId,
   skills |-> IF "skills" \in data.keys THEN data.skills ELSE {},
   skillsNull |-> "skills" \notin data.keys]

\* job.skills.some(skill => profile.skills.includes(skill)) /
\* jobs.skills && profile.skills
jobMatchesSkills(job, skills) == job.skills \cap skills # {}

\* --------------------------------------------------- routes: worker profiles
\* POST /api/worker-profile, up to the await of storage.getWorkerProfile
CreateWorkerProfileBegin(r, u, body) ==
  /\ MayBegin(r)
  /\ LET s == Start("createWorkerProfile", u, 0,
                    [body EXCEPT !.userId = u])
     IN
     req' = [req EXCEPT ![r] =
       IF ~isAuthenticated(u) THEN Answer(s, 401, "Unauthorized", {}, NoBody)
       ELSE IF users[u].userType # "worker"
         THEN Answer(s, 403, "Access denied", {}, NoBody)
       ELSE Await(s, "getWorkerProfile", 0)]
  /\ UNCHANGED <<impl, session, store, live, now>>

\* storage.getWorkerProfile(req.user.id) and the check for a profile
CreateWorkerProfileCheckExisting(r) ==
  /\ req[r].pc = "getWorkerProfile"
  /\ req' = [req EXCEPT ![r] =
       IF getWorkerProfile(req[r].user) # {}
         THEN Answer(req[r], 400, "Profile already exists. Use PUT to update.",
                     {}, NoBody)
       ELSE Await(req[r], "createWorkerProfile", 0)]
  /\ UNCHANGED <<impl, session, store, live, now>>

\* storage.createWorkerProfile(validatedData) and res.status(201)
CreateWorkerProfileCreate(r) ==
  /\ req[r].pc = "createWorkerProfile"
  /\ workerProfileIdCounter <= MaxProfiles
  /\ LET row == newWorkerProfile(req[r].arg, workerProfileIdCounter)
     IN
     /\ workerProfiles' = workerProfiles \cup {row}
     /\ req' = [req EXCEPT ![r] = Answer(req[r], 201, "", {}, row)]
  /\ workerProfileIdCounter' = workerProfileIdCounter + 1
  /\ UNCHANGED <<impl, session, live, messageStore, users, jobs, applications, ratings,
                 jobIdCounter, applicationIdCounter, ratingIdCounter, now>>

\* ------------------------------------------------------ routes: job matching
\* GET /api/jobs/match/:workerId (the first registration of the path, which
\* answers every request), storage.getMatchedJobsForWorker up to its query
\* for the jobs
MatchJobsBegin(r, workerId) ==
  /\ MayBegin(r)
  /\ LET s == Start("matchJobs", Anonymous, workerId, NoBody)
         profile == getWorkerProfile(workerId)
     IN
     req' = [req EXCEPT ![r] =
       IF ~isWorker(workerId) \/ profile = {}
         THEN Answer(s, 200, "", {}, [jobs |-> {}])
       ELSE IF impl = "db" /\ \E p \in profile : p.skillsNull
         THEN Answer(s, 200, "", {}, [jobs |-> {}])
       ELSE Await(s, "getMatchedJobs", CHOOSE p \in profile : TRUE)]
  /\ UNCHANGED <<impl, session, store, live, now>>

\* getAllJobs() and the filter (MemStorage), the SELECT with the overlap
\* condition (DatabaseStorage), and res.json(matchedJobs)
MatchJobsSelect(r) ==
  /\ req[r].pc = "getMatchedJobs"
  /\ LET profile == req[r].loc
         matchedJobs == IF profile.skillsNull THEN {}
                        ELSE {j \in jobs : jobMatchesSkills(j, profile.skills)}
     IN
     req' = [req EXCEPT ![r] =
               Answer(req[r], 200, "", {}, [jobs |-> matchedJobs])]
  /\ UNCHANGED <<impl, session, store, live, now>>

\* -------------------------------------- storage: messages and notifications
\* Mutant: the message is stored as read
newMessageRead(data, id) ==
  [id |-> id, fromUserId |-> data.fromUserId, toUserId |-> data.toUserId,
   content |-> data.content, isRead |-> TRUE, createdAt |-> now]

\* storage.createMessage: { ...message, id, isRead: false, createdAt }
newMessage(data, id) ==
  [id |-> id, fromUserId |-> data.fromUserId, toUserId |-> data.toUserId,
   content |-> data.content, isRead |-> FALSE, createdAt |-> now]

\* messages.from_user_id and to_user_id REFERENCES users(id)
messageForeignKeysHold(row) ==
  /\ row.fromUserId \in DOMAIN users
  /\ row.toUserId \in DOMAIN users

\* Mutant: the notification does not carry the id of the message
newNotificationUnrelated(userId, relatedId, id) ==
  [id |-> id, userId |-> userId, type |-> "message", relatedId |-> 0,
   isRead |-> FALSE]

\* Mutant: the notification is of type application
newNotificationOfApplication(userId, relatedId, id) ==
  [id |-> id, userId |-> userId, type |-> "application",
   relatedId |-> relatedId, isRead |-> FALSE]

\* storage.createNotification({ userId, title: "New Message", content,
\* type: "message", relatedId: message.id }): isRead: false
newNotification(userId, relatedId, id) ==
  [id |-> id, userId |-> userId, type |-> "message", relatedId |-> relatedId,
   isRead |-> FALSE]

\* ------------------------------------------------------- connection registry
\* activeConnections.get(userId), [] standing for undefined
userConnections(userId) ==
  IF userId \in DOMAIN activeConnections THEN activeConnections[userId]
                                         ELSE <<>>

\* Mutant: the frame goes to every registered connection
deliveriesToAll(userId, frame) ==
  [i \in 1..Len(userConnections(userId)) |->
     [frame EXCEPT !.ws = userConnections(userId)[i]]]

\* What notifyUser returns: true if userConnections && length > 0
notifyUser(userId) == Len(userConnections(userId)) > 0

\* userConnections.forEach(conn => { if (conn.readyState === WebSocket.OPEN)
\* conn.send(message) }): the frames that go out, one per open connection
deliveries(userId, frame) ==
  LET open == SelectSeq(userConnections(userId),
                        LAMBDA c : sockets[c].readyState = "open")
  IN [i \in 1..Len(open) |-> [frame EXCEPT !.ws = open[i]]]

\* ws.send(data) puts the frame on the wire if the socket is open
sendTo(ws, frame) ==
  IF sockets[ws].readyState = "open" THEN <<[frame EXCEPT !.ws = ws]>>
                                     ELSE <<>>

Frame(type, messageId, fromUserId) ==
  [ws |-> 0, type |-> type, messageId |-> messageId, fromUserId |-> fromUserId]

\* wss.on('connection'): a socket is accepted, its handler's userId is null
WsConnect ==
  /\ Cardinality(DOMAIN sockets) < MaxSockets
  /\ LET ws == Cardinality(DOMAIN sockets) + 1
     IN sockets' = [c \in DOMAIN sockets \cup {ws} |->
                      IF c = ws THEN [readyState |-> "open", userId |-> 0]
                                ELSE sockets[c]]
  /\ UNCHANGED <<impl, session, store, activeConnections, wire, now, req>>

\* Mutant: the socket replaces the user's connections
WsAuthenticateAlone(ws, userId) ==
  /\ ws \in DOMAIN sockets
  /\ sockets[ws].readyState = "open"
  /\ Len(userConnections(userId)) < MaxChannels
  /\ sockets' = [sockets EXCEPT ![ws].userId = userId]
  /\ activeConnections' =
       [u \in DOMAIN activeConnections \cup {userId} |->
          IF u = userId THEN <<ws>> ELSE activeConnections[u]]
  /\ UNCHANGED <<impl, session, store, wire, now, req>>

\* ws.on('message') with { type: 'authenticate', userId }: the handler's
\* userId is set and the socket is pushed on the user's connections
WsAuthenticate(ws, userId) ==
  /\ ws \in DOMAIN sockets
  /\ sockets[ws].readyState = "open"
  /\ Len(userConnections(userId)) < MaxChannels
  /\ sockets' = [sockets EXCEPT ![ws].userId = userId]
  /\ activeConnections' =
       [u \in DOMAIN activeConnections \cup {userId} |->
          IF u = userId THEN Append(userConnections(userId), ws)
                        ELSE activeConnections[u]]
  /\ UNCHANGED <<impl, session, store, wire, now, req>>

\* The socket starts its closing handshake: it is no longer OPEN
WsClosing(ws) ==
  /\ ws \in DOMAIN sockets
  /\ sockets[ws].readyState = "open"
  /\ sockets' = [sockets EXCEPT ![ws].readyState = "closing"]
  /\ UNCHANGED <<impl, session, store, activeConnections, wire, now, req>>

\* userConnections.splice(userConnections.indexOf(ws), 1)
withoutFirst(conns, ws) ==
  LET index == CHOOSE i \in 1..Len(conns) :
                 conns[i] = ws /\ \A k \in 1..(i - 1) : conns[k] # ws
  IN IF \E i \in 1..Len(conns) : conns[i] = ws
       THEN SubSeq(conns, 1, index - 1) \o SubSeq(conns, index + 1, Len(conns))
       ELSE conns

\* ws.on('close'): the socket is CLOSED and is taken once out of the
\* connections of the handler's userId, whose entry goes when it is empty
WsClose(ws) ==
  /\ ws \in DOMAIN sockets
  /\ sockets[ws].readyState # "closed"
  /\ sockets' = [sockets EXCEPT ![ws].readyState = "closed"]
  /\ LET userId == sockets[ws].userId
         rest == withoutFirst(userConnections(userId), ws)
     IN
     activeConnections' =
       IF userId = 0 \/ userId \notin DOMAIN activeConnections
         THEN activeConnections
       ELSE IF rest = <<>>
         THEN [u \in DOMAIN activeConnections \ {userId} |-> activeConnections[u]]
       ELSE [activeConnections EXCEPT ![userId] = rest]
  /\ UNCHANGED <<impl, session, store, wire, now, req>>

\* ---------------------------------------------------------- routes: messages
\* insertMessageSchema.parse({ ...req.body, fromUserId: req.user.id }):
\* toUserId and content are required
validMessageBody(body) == {"toUserId", "content"} \subseteq body.keys

validatedMessageData(body, u) ==
  [body EXCEPT !.fromUserId = u, !.keys = body.keys \cup {"fromUserId"}]

\* POST /api/messages, up to the await of storage.createMessage
SendMessageBegin(r, u, body) ==
  /\ MayBegin(r)
  /\ LET s == Start("sendMessage", u, 0, validatedMessageData(body, u))
     IN
     req' = [req EXCEPT ![r] =
       IF ~isAuthenticated(u) THEN Answer(s, 401, "Unauthorized", {}, NoBody)
       ELSE IF ~validMessageBody(body)
         THEN Answer(s, 400, "Invalid message data", {}, NoBody)
       ELSE Await(s, "createMessage", 0)]
  /\ UNCHANGED <<impl, session, store, live, now>>

\* storage.createMessage(validatedData)
SendMessageCreate(r) ==
  /\ req[r].pc = "createMessage"
  /\ messageIdCounter <= MaxMessages
  /\ LET s == req[r]
         row == newMessage(s.arg, messageIdCounter)
     IN
     IF impl = "db" /\ ~messageForeignKeysHold(row) THEN
       /\ req' = [req EXCEPT ![r] =
                    Answer(s, 500, "Failed to send message", {}, NoBody)]
       /\ UNCHANGED messages
     ELSE
       /\ messages' = messages \cup {row}
       /\ req' = [req EXCEPT ![r] =
            [Await(s, "createNotification", row.id) EXCEPT !.res.body = row]]
  /\ messageIdCounter' = messageIdCounter + 1
  /\ UNCHANGED <<impl, session, live, profileStore, users, jobs, applications, ratings,
                 jobIdCounter, applicationIdCounter, ratingIdCounter,
                 notifications, notificationIdCounter, now>>

\* storage.createNotification(...), app.locals.notifyUser(toUserId,
\* { type: "new_message", messageId, fromUserId }) and res.status(201)
SendMessageNotify(r) ==
  /\ req[r].pc = "createNotification"
  /\ LET s == req[r]
     IN
     /\ notifications' = notifications \cup
          {newNotification(s.arg.toUserId, s.loc, notificationIdCounter)}
     /\ wire' = wire \o deliveries(s.arg.toUserId,
                                   Frame("new_message", s.loc, s.user))
     /\ req' = [req EXCEPT ![r] = Answer(s, 201, "", {}, s.res.body)]
  /\ notificationIdCounter' = notificationIdCounter + 1
  /\ UNCHANGED <<impl, session, profileStore, users, jobs, applications, ratings,
                 jobIdCounter, applicationIdCounter, ratingIdCounter,
                 messages, messageIdCounter, activeConnections, sockets, now>>

\* ---------------------------------------------------- real-time: send message
\* Mutant: the frame is handled whether or not the socket has authenticated
WsMessageBeginUnauthenticated(r, ws, data) ==
  /\ MayBegin(r)
  /\ ws \in DOMAIN sockets
  /\ sockets[ws].readyState = "open"
  /\ LET userId == sockets[ws].userId
         s == Start("wsMessage", userId, ws,
                    [data EXCEPT !.fromUserId = userId])
     IN
     req' = [req EXCEPT ![r] =
       IF ~(/\ {"toUserId", "content"} \subseteq data.keys
            /\ data.toUserId # 0 /\ data.content # "")
         THEN Answer(s, 0, "ignored", {}, NoBody)
       ELSE Await(s, "ws.createMessage", 0)]
  /\ UNCHANGED <<impl, session, store, live, now>>

\* ws.on('message') with { type: 'message', toUserId, content }, up to the
\* await of storage.createMessage.  Nothing happens on a socket that has
\* not authenticated, nor unless data.toUserId && data.content: both are
\* there, toUserId is not 0 and content is not the empty string.
WsMessageBegin(r, ws, data) ==
  /\ MayBegin(r)
  /\ ws \in DOMAIN sockets
  /\ sockets[ws].readyState = "open"
  /\ LET userId == sockets[ws].userId
         s == Start("wsMessage", userId, ws,
                    [data EXCEPT !.fromUserId = userId])
     IN
     req' = [req EXCEPT ![r] =
       IF userId = 0 THEN Answer(s, 0, "ignored", {}, NoBody)
       ELSE IF ~(/\ {"toUserId", "content"} \subseteq data.keys
                 /\ data.toUserId # 0 /\ data.content # "")
         THEN Answer(s, 0, "ignored", {}, NoBody)
       ELSE Await(s, "ws.createMessage", 0)]
  /\ UNCHANGED <<impl, session, store, live, now>>

\* storage.createMessage({ fromUserId: userId, toUserId, content }); an
\* error is caught and logged
WsMessageCreate(r) ==
  /\ req[r].pc = "ws.createMessage"
  /\ messageIdCounter <= MaxMessages
  /\ LET s == req[r]
         row == newMessage(s.arg, messageIdCounter)
     IN
     IF impl = "db" /\ ~messageForeignKeysHold(row) THEN
       /\ req' = [req EXCEPT ![r] = Answer(s, 0, "error", {}, NoBody)]
       /\ UNCHANGED messages
     ELSE
       /\ messages' = messages \cup {row}
       /\ req' = [req EXCEPT ![r] =
            [Await(s, "ws.createNotification", row.id) EXCEPT !.res.body = row]]
  /\ messageIdCounter' = messageIdCounter + 1
  /\ UNCHANGED <<impl, session, live, profileStore, users, jobs, applications, ratings,
                 jobIdCounter, applicationIdCounter, ratingIdCounter,
                 notifications, notificationIdCounter, now>>

\* storage.createNotification(...), message_sent to the sender's socket and
\* new_message to the recipient's open connections
WsMessageNotify(r) ==
  /\ req[r].pc = "ws.createNotification"
  /\ LET s == req[r]
     IN
     /\ notifications' = notifications \cup
          {newNotification(s.arg.toUserId, s.loc, notificationIdCounter)}
     /\ wire' = wire \o sendTo(s.id, Frame("message_sent", s.loc, 0))
                     \o deliveries(s.arg.toUserId,
                                   Frame("new_message", s.loc, s.user))
     /\ req' = [req EXCEPT ![r] = Answer(s, 0, "handled", {}, s.res.body)]
  /\ notificationIdCounter' = notificationIdCounter + 1
  /\ UNCHANGED <<impl, session, profileStore, users, jobs, applications, ratings,
                 jobIdCounter, applicationIdCounter, ratingIdCounter,
                 messages, messageIdCounter, activeConnections, sockets, now>>

\* ------------------------------------------------- storage: reading messages
\* Whether row a may come before row b in an array of the given order:
\* "insertion" is Array.from(this.messages.values()); "createdAt" is the
\* stable .sort((a, b) => a.createdAt.getTime() - b.createdAt.getTime())
\* of such an array; "desc(createdAt)" is .orderBy(desc(messages.createdAt)),
\* where rows of one instant come in any order
inOrder(order, a, b) ==
  CASE order = "insertion" -> a.id < b.id
    [] order = "createdAt" ->
         a.createdAt < b.createdAt \/ (a.createdAt = b.createdAt /\ a.id < b.id)
    [] order = "desc(createdAt)" -> a.createdAt >= b.createdAt

\* The arrays that hold every row of a selection once, in the given order
Orderings(rows, order) ==
  {list \in [1..Cardinality(rows) -> rows] :
     \A i, k \in 1..Cardinality(rows) :
       i < k => list[i] # list[k] /\ inOrder(order, list[i], list[k])}

\* Mutant: only what user1 sent to user2
getConversationOneWay(user1Id, user2Id) ==
  LET rows == {m \in messages :
                 m.fromUserId = user1Id /\ m.toUserId = user2Id}
  IN IF impl = "mem" THEN Orderings(rows, "createdAt")
                     ELSE Orderings(rows, "desc(createdAt)")

\* storage.getConversation(user1Id, user2Id): the arrays it can return
getConversation(user1Id, user2Id) ==
  LET rows == {m \in messages :
                 \/ m.fromUserId = user1Id /\ m.toUserId = user2Id
                 \/ m.fromUserId = user2Id /\ m.toUserId = user1Id}
  IN IF impl = "mem" THEN Orderings(rows, "createdAt")
                     ELSE Orderings(rows, "desc(createdAt)")

\* storage.getUserMessages(userId): the arrays it can return
getUserMessages(userId) ==
  LET rows == {m \in messages :
                 m.toUserId = userId \/ m.fromUserId = userId}
  IN IF impl = "mem" THEN Orderings(rows, "insertion")
                     ELSE Orderings(rows, "desc(createdAt)")

\* GET /api/messages?userId=: the conversation with otherUserId if it is
\* given (and not 0), else all the messages of the user
GetMessages(r, u, otherUserId) ==
  /\ MayBegin(r)
  /\ LET s == Start("getMessages", u, otherUserId, NoBody)
     IN
     IF ~isAuthenticated(u)
       THEN req' = [req EXCEPT ![r] = Answer(s, 401, "Unauthorized", {}, NoBody)]
       ELSE \E list \in (IF otherUserId # 0 THEN getConversation(u, otherUserId)
                                            ELSE getUserMessages(u)) :
              req' = [req EXCEPT ![r] =
                        Answer(s, 200, "", {}, [list |-> list])]
  /\ UNCHANGED <<impl, session, store, live, now>>

\* Time passes between two readings of new Date()
Tick ==
  /\ now < MaxClock
  /\ now' = now + 1
  /\ UNCHANGED <<impl, session, store, live, req>>

\* ------------------------------------------------------ routes: read flags
\* Mutant: marking a row also stamps it with the time of the reading
markedReadNow(row) == [row EXCEPT !.isRead = TRUE, !.createdAt = now]

\* Mutant: the read flag is flipped
markedUnlessRead(row) == [row EXCEPT !.isRead = ~row.isRead]

\* { ...message, isRead: true } / .set({ isRead: true })
markedRead(row) == [row EXCEPT !.isRead = TRUE]

\* PUT /api/messages/:id/read with storage.markMessageAsRead(messageId);
\* loc keeps the row as it was found
MarkMessageRead(r, u, id) ==
  /\ MayBegin(r)
  /\ LET s == Start("markMessageRead", u, id, NoBody)
         found == {m \in messages : m.id = id}
     IN
     IF ~isAuthenticated(u) THEN
       /\ req' = [req EXCEPT ![r] = Answer(s, 401, "Unauthorized", {}, NoBody)]
       /\ UNCHANGED messages
     ELSE IF found = {} THEN
       /\ req' = [req EXCEPT ![r] =
                    Answer(s, 404, "Message not found", {}, NoBody)]
       /\ UNCHANGED messages
     ELSE
       LET message == CHOOSE m \in found : TRUE
       IN /\ messages' = (messages \ {message}) \cup {markedRead(message)}
          /\ req' = [req EXCEPT ![r] =
               Answer(Await(s, "done", message), 200, "", {},
                      markedRead(message))]
  /\ UNCHANGED <<impl, session, live, profileStore, users, jobs, applications, ratings,
                 jobIdCounter, applicationIdCounter, ratingIdCounter,
                 notifications, messageIdCounter, notificationIdCounter, now>>

\* PUT /api/notifications/:id/read with storage.markNotificationAsRead
MarkNotificationRead(r, u, id) ==
  /\ MayBegin(r)
  /\ LET s == Start("markNotificationRead", u, id, NoBody)
         found == {n \in notifications : n.id = id}
     IN
     IF ~isAuthenticated(u) THEN
       /\ req' = [req EXCEPT ![r] = Answer(s, 401, "Unauthorized", {}, NoBody)]
       /\ UNCHANGED notifications
     ELSE IF found = {} THEN
       /\ req' = [req EXCEPT ![r] =
                    Answer(s, 404, "Notification not found", {}, NoBody)]
       /\ UNCHANGED notifications
     ELSE
       LET notification == CHOOSE n \in found : TRUE
       IN /\ notifications' =
               (notifications \ {notification}) \cup {markedRead(notification)}
          /\ req' = [req EXCEPT ![r] =
               Answer(Await(s, "done", notification), 200, "", {},
                      markedRead(notification))]
  /\ UNCHANGED <<impl, session, live, profileStore, users, jobs, applications, ratings,
                 jobIdCounter, applicationIdCounter, ratingIdCounter,
                 messages, messageIdCounter, notificationIdCounter, now>>

\* ----------------------------------------------------------- request bodies
\* Who sends requests: every registered account and a client without session
Actors == Workers \cup Employers \cup {Anonymous}

JobIds == 1..MaxJobs
ApplicationIds == 1..MaxApps
\* An id that no job ever gets within the bounds, and the id of no user
MissingJobId == MaxJobs + 1
MissingUserId == 9

JobBody(keys, status) == [keys |-> keys, status |-> status]
JobPatch(keys, status, employerId) ==
  [keys |-> keys, status |-> status, employerId |-> employerId]
ApplicationBody(keys, jobId, workerId, coverLetter, status) ==
  [keys |-> keys, jobId |-> jobId, workerId |-> workerId,
   coverLetter |-> coverLetter, status |-> status]

RatingBody(keys, fromUserId, toUserId, jobId, rating) ==
  [keys |-> keys, fromUserId |-> fromUserId, toUserId |-> toUserId,
   jobId |-> jobId, rating |-> rating]

UserBody(keys, username, email, userType, rating) ==
  [keys |-> keys, username |-> username, email |-> email,
   password |-> InitialPassword,
   userType |-> userType, rating |-> rating]

SkilledJobBody(keys, status, skills) ==
  [keys |-> keys, status |-> status, skills |-> skills]
ProfileBody(keys, skills) == [keys |-> keys, userId |-> 0, skills |-> skills]

MessageBody(keys, fromUserId, toUserId, content) ==
  [keys |-> keys, fromUserId |-> fromUserId, toUserId |-> toUserId,
   content |-> content]

PlainJobBody == JobBody({"title"}, Undefined)
PlainApplicationBody(j) == ApplicationBody({"jobId"}, j, 0, Undefined, Undefined)

\* ------------------------------------------- specification: submitting
\* Requests served one at a time.  Employers post jobs and close or reopen
\* them; workers apply with a plain body, with a body that carries a status,
\* a cover letter and somebody else's workerId, and with one without jobId.
SubmitJobPatches ==
  {JobPatch({"status"}, st, 0) : st \in {JobStatus.IN_PROGRESS, JobStatus.COMPLETED}}

SubmitApplicationBodies ==
  {PlainApplicationBody(j) : j \in JobIds}
  \cup {ApplicationBody({"jobId", "workerId", "coverLetter", "status"},
                        j, 2, "hello", ApplicationStatus.ACCEPTED) : j \in JobIds}
  \cup {ApplicationBody({"coverLetter"}, 0, 0, "hello", Undefined)}

Next ==
  \E r \in {1} :
    \/ \E u \in Actors : CreateJob(r, u, PlainJobBody)
    \/ \E u \in Actors, id \in JobIds, patch \in SubmitJobPatches :
         UpdateJobBegin(r, u, id, patch)
    \/ UpdateJobWrite(r)
    \/ \E u \in Actors, body \in SubmitApplicationBodies :
         SubmitApplicationBegin(r, u, body)
    \/ SubmitApplicationCheckExisting(r)
    \/ SubmitApplicationCreate(r)
    \/ Recycle(r)

Spec == Init /\ [][Next]_vars

\* --------------------------------- specification: updating applications
\* Requests served one at a time.  Employers post and delete jobs, workers
\* apply, and everybody sends patches to PUT /api/applications/:id: an empty
\* one, a cover letter, a cover letter with a status outside the enumeration,
\* another worker's id, and a job id that exists nowhere.
UpdateApplicationPatches ==
  {ApplicationBody({}, 0, 0, Undefined, Undefined),
   ApplicationBody({"coverLetter"}, 0, 0, "edited", Undefined),
   ApplicationBody({"coverLetter", "status"}, 0, 0, "edited", "archived"),
   ApplicationBody({"workerId"}, 0, 2, Undefined, Undefined),
   ApplicationBody({"jobId"}, MissingJobId, 0, Undefined, Undefined)}

NextUpdate ==
  \E r \in {1} :
    \/ \E u \in Employers : CreateJob(r, u, PlainJobBody)
    \/ \E u \in Employers, id \in JobIds : DeleteJobBegin(r, u, id)
    \/ DeleteJobApplications(r)
    \/ DeleteJobRow(r)
    \/ \E u \in Workers, j \in JobIds :
         SubmitApplicationBegin(r, u, PlainApplicationBody(j))
    \/ SubmitApplicationCheckExisting(r)
    \/ SubmitApplicationCreate(r)
    \/ \E u \in Actors, id \in ApplicationIds, patch \in UpdateApplicationPatches :
         UpdateApplicationBegin(r, u, id, patch)
    \/ UpdateApplicationGetJob(r)
    \/ UpdateApplicationWrite(r)
    \/ Recycle(r)

SpecUpdate == Init /\ [][NextUpdate]_vars

\* --------------------------------------------------- claims on submitting
\* The request in slot r is answered by this step
Answered(r) == req[r].pc # "done" /\ req'[r].pc = "done"

\* This step belongs to a well-formed submitApplication of a worker in slot r
SubmitStep(r) ==
  /\ req'[r] # req[r]
  /\ req'[r].op = "submitApplication"
  /\ req'[r].user \in Workers
  /\ "jobId" \in req'[r].arg.keys

\* C3 as stated: for every (job, worker) pair that already has an
\* Application, a further submitApplication for that pair fails with the
\* duplicate error, creates no Application and leaves the existing one
\* unchanged.
C3_SecondSubmitAlwaysDuplicate ==
  [][\A r \in Reqs :
       (/\ SubmitStep(r)
        /\ Answered(r)
        /\ \E a \in applications :
             a.jobId = req'[r].arg.jobId /\ a.workerId = req'[r].user)
       => /\ req'[r].res.code = 400
          /\ req'[r].res.msg = "You have already applied for this job"
          /\ applications' = applications]_vars

\* C3 amended: a further submitApplication for a pair that already has an
\* Application never creates one and leaves the applications as they are; it
\* is answered with the duplicate error if the job is still open or in
\* progress, and with NotFound or Ineligible otherwise.
C3_SecondSubmitFails ==
  [][\A r \in Reqs :
       (/\ SubmitStep(r)
        /\ \E a \in applications :
             a.jobId = req'[r].arg.jobId /\ a.workerId = req'[r].user)
       => /\ applications' = applications
          /\ applicationIdCounter' = applicationIdCounter
          /\ req'[r].pc # "createApplication"
          /\ Answered(r) =>
               /\ req'[r].res.code \in {400, 404}
               /\ req'[r].res.msg = "You have already applied for this job"
                  <=> \E j \in jobs :
                        /\ j.id = req'[r].arg.jobId
                        /\ j.status \in {"open", "in_progress"}]_vars

\* C3 witness: a second application for the same pair was answered as a
\* duplicate while the first is on record
C3_Witness ==
  \E r \in Reqs :
    /\ req[r].pc = "done"
    /\ req[r].op = "submitApplication"
    /\ req[r].res.msg = "You have already applied for this job"
    /\ \E a \in applications :
         a.jobId = req[r].arg.jobId /\ a.workerId = req[r].user

\* C4: a well-formed submitApplication is answered NotFound when its job does
\* not exist and Ineligible when the job's status is neither open nor
\* in_progress, whether or not the worker has applied before; in both cases
\* the store is left as it was.
C4_SubmitNotFoundThenIneligible ==
  [][\A r \in Reqs :
       (SubmitStep(r) /\ req[r].pc = "idle")
       => LET job == {j \in jobs : j.id = req'[r].arg.jobId} IN
          /\ job = {} =>
               /\ req'[r].pc = "done"
               /\ req'[r].res.code = 404
               /\ req'[r].res.msg = "Job not found"
               /\ UNCHANGED store
          /\ (\E j \in job : j.status \notin {"open", "in_progress"}) =>
               /\ req'[r].pc = "done"
               /\ req'[r].res.code = 400
               /\ req'[r].res.msg = "This job is not accepting applications"
               /\ UNCHANGED store]_vars

\* C4 witness: a worker who has applied to a job that was closed since is
\* answered Ineligible, not Duplicate
C4_Witness ==
  \E r \in Reqs :
    /\ req[r].pc = "done"
    /\ req[r].op = "submitApplication"
    /\ req[r].res.msg = "This job is not accepting applications"
    /\ \E a \in applications :
         a.jobId = req[r].arg.jobId /\ a.workerId = req[r].user

\* C5: every Application a successful submitApplication returns has status
\* pending and appliedAt = updatedAt, under MemStorage and DatabaseStorage.
C5_CreatedApplicationIsPending ==
  \A r \in Reqs :
    (req[r].pc = "done" /\ req[r].op = "submitApplication" /\ req[r].res.code = 201)
    => /\ req[r].res.body.status = "pending"
       /\ req[r].res.body.appliedAt = req[r].res.body.updatedAt

\* ------------------------------------------ claims on updating applications
\* C1: in every reachable state at most one Application exists for each
\* (jobId, workerId) pair.
C1_OneApplicationPerJobAndWorker ==
  \A a, b \in applications :
    (a.jobId = b.jobId /\ a.workerId = b.workerId) => a.id = b.id

\* This step is the arrival of an updateApplication request in slot r for an
\* application that is on record
UpdateApplicationArrives(r) ==
  /\ req[r].pc = "idle"
  /\ req'[r] # req[r]
  /\ req'[r].op = "updateApplication"
  /\ \E a \in applications : a.id = req'[r].id

\* C6: a worker's updateApplication on their own application with a patch
\* that holds any field other than coverLetter is answered Forbidden, names
\* exactly those fields and changes nothing; on another worker's application
\* it is answered Forbidden whatever the patch.
C6_WorkerPatchesCoverLetterOnly ==
  [][\A r \in Reqs :
       (UpdateApplicationArrives(r) /\ req'[r].user \in DOMAIN users)
       => LET u == req'[r].user
              a == CHOOSE x \in applications : x.id = req'[r].id
              offending == req'[r].arg.keys \ {"coverLetter"}
          IN users[u].userType = "worker" =>
             /\ (a.workerId = u /\ offending # {}) =>
                  /\ req'[r].pc = "done"
                  /\ req'[r].res.code = 403
                  /\ req'[r].res.msg = "Workers cannot update these fields"
                  /\ req'[r].res.fields = offending
                  /\ UNCHANGED store
             /\ a.workerId # u =>
                  /\ req'[r].pc = "done"
                  /\ req'[r].res.code = 403
                  /\ req'[r].res.msg = "You can only update your own applications"
                  /\ UNCHANGED store]_vars

\* C6 witness: a worker sent a cover letter together with a status for their
\* own application and was told that status is the field they cannot update
C6_Witness ==
  \E r \in Reqs :
    /\ req[r].pc = "done"
    /\ req[r].op = "updateApplication"
    /\ req[r].arg.keys = {"coverLetter", "status"}
    /\ req[r].res.code = 403
    /\ req[r].res.fields = {"status"}
    /\ \E a \in applications : a.id = req[r].id /\ a.workerId = req[r].user

\* C7: an employer's updateApplication succeeds only if the application's job
\* exists and is owned by that employer; when the job is missing or owned by
\* somebody else the request is answered Forbidden and changes nothing.
C7_EmployerUpdatesOwnJobsOnly ==
  [][\A r \in Reqs :
       (/\ req'[r] # req[r]
        /\ req'[r].op = "updateApplication"
        /\ req'[r].user \in DOMAIN users
        /\ users[req'[r].user].userType = "employer")
       => LET u == req'[r].user
              owned == \E a \in applications : \E j \in jobs :
                         a.id = req'[r].id /\ j.id = a.jobId /\ j.employerId = u
          IN /\ (Answered(r) /\ req'[r].res.code = 200) => owned
             /\ (req[r].pc = "getJob" /\ ~owned) =>
                  /\ req'[r].pc = "done"
                  /\ req'[r].res.code = 403
                  /\ req'[r].res.msg =
                       "You can only update applications for your own jobs"
                  /\ UNCHANGED store
             /\ ~owned => applications' = applications]_vars

\* C7 witness: an employer was refused on an application whose job does not
\* exist
C7_Witness ==
  \E r \in Reqs :
    /\ req[r].pc = "done"
    /\ req[r].op = "updateApplication"
    /\ req[r].user \in Employers
    /\ req[r].res.code = 403
    /\ \E a \in applications :
         a.id = req[r].id /\ \A j \in jobs : j.id # a.jobId

\* C8: in every reachable state every Application's status is one of pending,
\* under_review, interview, accepted, rejected.
C8_ApplicationStatusInEnumeration ==
  \A a \in applications :
    a.status \in {"pending", "under_review", "interview", "accepted", "rejected"}

\* --------------------------------------- specification: concurrent submits
\* Requests of several clients in flight at once, interleaving at their
\* awaits: an employer posts jobs and workers apply.
NextRace ==
  \E r \in Reqs :
    \/ \E u \in Employers : CreateJob(r, u, PlainJobBody)
    \/ \E u \in Workers, j \in JobIds :
         SubmitApplicationBegin(r, u, PlainApplicationBody(j))
    \/ SubmitApplicationCheckExisting(r)
    \/ SubmitApplicationCreate(r)
    \/ Recycle(r)

SpecRace == Init /\ [][NextRace]_vars

\* C2: of two submitApplication requests for the same (jobId, workerId) that
\* run concurrently, at most one creates an Application.
C2_ConcurrentSubmitsCreateOnce ==
  \A r1, r2 \in Reqs :
    (/\ r1 # r2
     /\ req[r1].pc = "done" /\ req[r1].op = "submitApplication"
     /\ req[r2].pc = "done" /\ req[r2].op = "submitApplication"
     /\ req[r1].user = req[r2].user
     /\ req[r1].arg.jobId = req[r2].arg.jobId)
    => ~(req[r1].res.code = 201 /\ req[r2].res.code = 201)

\* ------------------------------------------------------ specification: jobs
\* Requests served one at a time: jobs are posted, patched and deleted.
\* Bodies of POST /api/jobs: without a status, with a status of the
\* enumeration, with one outside it, and one that fails the schema.
\* Bodies of PUT /api/jobs/:id: a status of the enumeration, one outside it,
\* another employer's id and the id of no user.
JobBodies ==
  {PlainJobBody,
   JobBody({"title", "status"}, JobStatus.COMPLETED),
   JobBody({"title", "status"}, "archived"),
   JobBody({"status"}, JobStatus.OPEN)}

JobPatches ==
  {JobPatch({"status"}, JobStatus.IN_PROGRESS, 0),
   JobPatch({"status"}, "archived", 0),
   JobPatch({"employerId"}, Undefined, 4),
   JobPatch({"employerId"}, Undefined, MissingUserId)}

NextJobs ==
  \E r \in {1} :
    \/ \E u \in Actors, body \in JobBodies : CreateJob(r, u, body)
    \/ \E u \in Actors, id \in JobIds, patch \in JobPatches :
         UpdateJobBegin(r, u, id, patch)
    \/ UpdateJobWrite(r)
    \/ \E u \in Actors, id \in JobIds : DeleteJobBegin(r, u, id)
    \/ DeleteJobApplications(r)
    \/ DeleteJobRow(r)
    \/ Recycle(r)

SpecJobs == Init /\ [][NextJobs]_vars

\* C9: in every reachable state every Job's status is one of open,
\* in_progress, completed, cancelled.
C9_JobStatusInEnumeration ==
  \A j \in jobs : j.status \in {"open", "in_progress", "completed", "cancelled"}

\* --------------------------------------------------- specification: ratings
\* Requests served one at a time.  Employers post jobs, open or completed;
\* everybody rates, MaxRatingsWide times at most: values inside and outside 1..5, with and without a job,
\* a body without a value, a recipient and a job that do not exist.
RatingJobBodies == {PlainJobBody, JobBody({"title", "status"}, JobStatus.COMPLETED)}

RatingBodies ==
  {RatingBody({"toUserId", "rating"}, 0, 3, 0, v) : v \in {0, 1, 4, 5, 6}}
  \cup {RatingBody({"toUserId", "jobId", "rating"}, 0, 3, 1, v) : v \in {5, 6}}
  \cup {RatingBody({"toUserId", "jobId", "rating"}, 0, 1, 1, 2),
        RatingBody({"toUserId", "jobId", "rating"}, 0, 3, MissingJobId, 4),
        RatingBody({"toUserId", "rating"}, 0, MissingUserId, 0, 3),
        RatingBody({"toUserId"}, 0, 3, 0, 0)}

NextRatings ==
  \E r \in {1} :
    \/ \E u \in Employers, body \in RatingJobBodies : CreateJob(r, u, body)
    \/ \E u \in Actors, body \in RatingBodies : SubmitRatingBegin(r, u, body)
    \/ SubmitRatingGetJob(r)
    \/ SubmitRatingCreateWide(r)
    \/ UpdateUserRatingRead(r)
    \/ UpdateUserRatingWrite(r)
    \/ Recycle(r)

SpecRatings == Init /\ [][NextRatings]_vars

\* A submitRating request carrying a value arrives from a logged-in user
SubmitRatingArrives(r) ==
  /\ req[r].pc = "idle"
  /\ req'[r].op = "submitRating"
  /\ req'[r].user \in DOMAIN users
  /\ "rating" \in req'[r].arg.keys

\* C10: every persisted Rating has a value in 1..5; a submitRating with a
\* value below 1 or above 5 is answered with a validation error (400) and
\* changes nothing in the store.
C10_RatingsWithinOneToFive ==
  /\ [](\A x \in ratings : x.rating >= 1 /\ x.rating <= 5)
  /\ [][\A r \in Reqs :
          (/\ SubmitRatingArrives(r)
           /\ (req'[r].arg.rating < 1 \/ req'[r].arg.rating > 5))
          => /\ req'[r].pc = "done"
             /\ req'[r].res.code = 400
             /\ UNCHANGED store]_vars

\* An out-of-range rating has been refused while ratings are on record, and
\* both ends of the range have been persisted.
C10_Witness ==
  /\ \E r \in Reqs :
       /\ req[r].pc = "done" /\ req[r].op = "submitRating"
       /\ req[r].res.msg = "Rating must be between 1 and 5"
       /\ req[r].arg.rating > 5
  /\ \E x, y \in ratings : x.rating = 1 /\ y.rating = 5

\* C11: every persisted Rating that references a job references a completed
\* job, and is either a worker's rating of that job's employer or the
\* rating of a worker by the employer who owns the job.
C11_RatingsComeFromParticipants ==
  \A x \in ratings : \A id \in x.jobId :
    \E j \in jobs :
      /\ j.id = id
      /\ j.status = "completed"
      /\ \/ /\ users[x.fromUserId].userType = "worker"
            /\ x.toUserId = j.employerId
         \/ /\ x.fromUserId = j.employerId
            /\ x.toUserId \in DOMAIN users
            /\ users[x.toUserId].userType = "worker"

\* -------------------------------------------------- specification: averages
\* Requests served one at a time.  A worker and an employer rate an
\* employer and a worker, without a job, with values whose means over three
\* ratings need rounding.
AverageRaters == {1, 4}

AverageBodies ==
  {RatingBody({"toUserId", "rating"}, 0, to, 0, v) : to \in {1, 3}, v \in {1, 2, 5}}

NextAverage ==
  \E r \in {1} :
    \/ \E u \in AverageRaters, body \in AverageBodies :
         SubmitRatingBegin(r, u, body)
    \/ SubmitRatingCreate(r)
    \/ UpdateUserRatingRead(r)
    \/ UpdateUserRatingWrite(r)
    \/ Recycle(r)

SpecAverage == Init /\ [][NextAverage]_vars

\* C12: when a submitRating addressed to user u is answered with success
\* (requests run one at a time), u.rating is the mean of the values of all
\* Ratings addressed to u, rounded to one decimal place: in tenths, no
\* further than half a tenth from the mean.
C12_RatingIsRoundedMean ==
  [][\A r \in Reqs :
       (/\ req[r].pc # "done"
        /\ req'[r].pc = "done"
        /\ req'[r].op = "submitRating"
        /\ req'[r].res.code = 201
        /\ req'[r].arg.toUserId \in DOMAIN users)
       => LET u == req'[r].arg.toUserId
              addressed == {x \in ratings' : x.toUserId = u}
              n == Cardinality(addressed)
              diff == 10 * totalRating(addressed) - users'[u].rating * n
          IN /\ n > 0
             /\ 2 * diff <= n
             /\ 2 * diff >= -n]_vars

\* Three ratings of user 3 whose mean 8/3 is not a multiple of a tenth
\* have been averaged to 2.7, and the last submitRating has succeeded.
C12_Witness ==
  /\ Cardinality({x \in ratings : x.toUserId = 3}) = 3
  /\ totalRating({x \in ratings : x.toUserId = 3}) = 8
  /\ users[3].rating = 27
  /\ \E r \in Reqs :
       /\ req[r].pc = "done" /\ req[r].op = "submitRating"
       /\ req[r].res.code = 201 /\ req[r].arg.toUserId = 3

\* ------------------------------------------- specification: racing averages
\* Requests run concurrently (under DatabaseStorage they interleave at their
\* awaits): workers rate employer 3 with the values 1 and 5.
RaceRatingBodies ==
  {RatingBody({"toUserId", "rating"}, 0, 3, 0, v) : v \in {1, 5}}

NextAverageRace ==
  \E r \in Reqs :
    \/ \E u \in Workers, body \in RaceRatingBodies :
         SubmitRatingBegin(r, u, body)
    \/ SubmitRatingCreate(r)
    \/ UpdateUserRatingRead(r)
    \/ UpdateUserRatingWrite(r)
    \/ Recycle(r)

SpecAverageRace == Init /\ [][NextAverageRace]_vars

\* C13: once every submitRating request has completed, the rating of each
\* user who has Ratings is the mean of the values of all persisted Ratings
\* addressed to that user, rounded to one decimal place, however the
\* requests interleaved.
C13_FinalRatingIsRoundedMean ==
  (\A r \in Reqs : req[r].pc \in {"idle", "done"})
  => \A u \in DOMAIN users :
       LET addressed == {x \in ratings : x.toUserId = u}
           n == Cardinality(addressed)
           diff == 10 * totalRating(addressed) - users[u].rating * n
       IN n > 0 => (2 * diff <= n /\ 2 * diff >= -n)

\* ----------------------------------------------- specification: registration
\* Requests served one at a time.  Accounts are registered with a plain
\* body, with a body that carries a rating, with the name of an existing
\* account and with a body that fails the schema; jobs are posted, workers
\* apply, and the old and the new accounts rate and are rated.
RegisterKeys == {"username", "password", "email", "userType"}

RegisterBodies ==
  {UserBody(RegisterKeys, 5, 5, UserType.WORKER, 0),
   UserBody(RegisterKeys \cup {"rating"}, 6, 6, UserType.WORKER, 50),
   UserBody(RegisterKeys, 1, 7, UserType.WORKER, 0),
   UserBody(RegisterKeys \ {"username"}, 8, 8, UserType.WORKER, 0)}

RegisterRatingBodies ==
  {RatingBody({"toUserId", "rating"}, 0, to, 0, v) : to \in {3, 5}, v \in {2, 5}}

NextRegister ==
  \E r \in {1} :
    \/ \E body \in RegisterBodies : RegisterBegin(r, body)
    \/ RegisterCheckUsername(r)
    \/ RegisterCheckEmail(r)
    \/ RegisterCreate(r)
    \/ \E u \in Employers : CreateJob(r, u, PlainJobBody)
    \/ \E u \in {1, 5}, j \in JobIds :
         SubmitApplicationBegin(r, u, PlainApplicationBody(j))
    \/ SubmitApplicationCheckExisting(r)
    \/ SubmitApplicationCreate(r)
    \/ \E u \in {1, 5}, body \in RegisterRatingBodies :
         SubmitRatingBegin(r, u, body)
    \/ SubmitRatingCreateWide(r)
    \/ UpdateUserRatingRead(r)
    \/ UpdateUserRatingWrite(r)
    \/ Recycle(r)

SpecRegister == Init /\ [][NextRegister]_vars

\* C14: a user created by registration has rating 0 whatever the body
\* carries, and a user's rating changes only in a step of a submitRating
\* request addressed to that user, after its Rating has been stored.
C14_RatingChangesOnlyByRatings ==
  [][/\ \A u \in DOMAIN users' \ DOMAIN users : users'[u].rating = 0
     /\ \A u \in DOMAIN users :
          users'[u].rating # users[u].rating
          => \E r \in Reqs :
               /\ req[r].op = "submitRating"
               /\ req[r].arg.toUserId = u
               /\ req'[r] # req[r]
               /\ \E x \in ratings : x.toUserId = u]_vars

\* C15: when deleteJob(j) completes (requests run one at a time), job j no
\* longer exists and no Application references it, and no step of the
\* request touches an Application that references another job.
C15_DeleteJobCascades ==
  [][\A r \in Reqs :
       (req[r].op = "deleteJob" /\ req'[r] # req[r])
       => /\ {a \in applications' : a.jobId # req[r].id}
               = {a \in applications : a.jobId # req[r].id}
          /\ (req'[r].pc = "done" /\ req'[r].res.code = 204)
             => /\ \A j \in jobs' : j.id # req[r].id
                /\ \A a \in applications' : a.jobId # req[r].id]_vars

\* A deleteJob has completed; of the two applications made, the one of the
\* deleted job is gone and the one of the other job is on record.
C15_Witness ==
  /\ \E r \in Reqs :
       /\ req[r].pc = "done" /\ req[r].op = "deleteJob"
       /\ req[r].res.code = 204
       /\ \E a \in applications : a.jobId # req[r].id
  /\ applicationIdCounter = 3
  /\ Cardinality(applications) = 1

\* ---------------------------------------------- specification: racing deletes
\* Requests run concurrently.  Employer 3 posts and deletes jobs and moves
\* applications to another job or to a job that does not exist; worker 1
\* applies.
DeleteRacePatches ==
  {ApplicationBody({"jobId"}, j, 0, Undefined, Undefined) :
     j \in JobIds \cup {MissingJobId}}

NextDeleteRace ==
  \E r \in Reqs :
    \/ CreateJob(r, 3, PlainJobBody)
    \/ \E id \in JobIds : DeleteJobBegin(r, 3, id)
    \/ DeleteJobApplications(r)
    \/ DeleteJobRow(r)
    \/ \E j \in JobIds : SubmitApplicationBegin(r, 1, PlainApplicationBody(j))
    \/ SubmitApplicationCheckExisting(r)
    \/ SubmitApplicationCreate(r)
    \/ \E id \in ApplicationIds, patch \in DeleteRacePatches :
         UpdateApplicationBegin(r, 3, id, patch)
    \/ UpdateApplicationGetJob(r)
    \/ UpdateApplicationWrite(r)
    \/ Recycle(r)

SpecDeleteRace == Init /\ [][NextDeleteRace]_vars

\* C16: whenever no request is in flight, every Application references a
\* Job that exists.
C16_ApplicationsReferenceJobs ==
  (\A r \in Reqs : req[r].pc \in {"idle", "done"})
  => \A a \in applications : \E j \in jobs : j.id = a.jobId

\* -------------------------------------------------- specification: matching
\* Requests served one at a time.  Employer 3 posts jobs with and without
\* skills, open and completed; workers create profiles with and without
\* skills; anybody asks for the matches of a worker with a profile, of one
\* without, of an employer and of nobody.
MatchJobBodies ==
  {SkilledJobBody({"title", "skills"}, Undefined, {"welding"}),
   SkilledJobBody({"title", "skills"}, Undefined, {"driving"}),
   SkilledJobBody({"title", "status", "skills"}, JobStatus.COMPLETED, {"welding"}),
   PlainJobBody}

MatchProfileBodies ==
  {ProfileBody({"skills"}, {"welding"}),
   ProfileBody({"skills"}, {"welding", "driving"}),
   ProfileBody({}, {})}

NextMatch ==
  \E r \in {1} :
    \/ \E body \in MatchJobBodies : CreateJob(r, 3, body)
    \/ \E u \in Actors, body \in MatchProfileBodies :
         CreateWorkerProfileBegin(r, u, body)
    \/ CreateWorkerProfileCheckExisting(r)
    \/ CreateWorkerProfileCreate(r)
    \/ \E id \in Workers \cup {3, MissingUserId} : MatchJobsBegin(r, id)
    \/ MatchJobsSelect(r)
    \/ Recycle(r)

SpecMatch == Init /\ [][NextMatch]_vars

\* C17: matchJobs for a worker whose profile has skills returns exactly the
\* jobs that are open or in progress and share a skill with the profile.
C17_MatchesAreOpenJobsSharingASkill ==
  \A r \in Reqs :
    (/\ req[r].pc = "done" /\ req[r].op = "matchJobs"
     /\ \E p \in workerProfiles : p.userId = req[r].id /\ ~p.skillsNull)
    => \E p \in workerProfiles :
         /\ p.userId = req[r].id
         /\ req[r].res.code = 200
         /\ req[r].res.body.jobs =
              {j \in jobs : /\ j.status \in {"open", "in_progress"}
                            /\ j.skills \cap p.skills # {}}

\* C18: matchJobs for a worker without a WorkerProfile, or for an id that is
\* not a worker's, succeeds with no job, whatever jobs exist.
C18_NoProfileMatchesNothing ==
  \A r \in Reqs :
    (/\ req[r].pc = "done" /\ req[r].op = "matchJobs"
     /\ \/ req[r].id \notin DOMAIN users
        \/ users[req[r].id].userType # "worker"
        \/ \A p \in workerProfiles : p.userId # req[r].id)
    => /\ req[r].res.code = 200
       /\ req[r].res.body.jobs = {}

\* matchJobs has answered for a worker without a profile while another
\* worker has a profile that shares a skill with a job on record.
C18_Witness ==
  \E r \in Reqs :
    /\ req[r].pc = "done" /\ req[r].op = "matchJobs"
    /\ req[r].id \in DOMAIN users
    /\ users[req[r].id].userType = "worker"
    /\ \A p \in workerProfiles : p.userId # req[r].id
    /\ \E p \in workerProfiles, j \in jobs : j.skills \cap p.skills # {}

\* ------------------------------------------------- specification: messaging
\* Message sends are served one at a time, over REST and over a socket,
\* while sockets connect, authenticate (socket 1 as user 1, socket 2 as
\* user 2, once or twice) and close.  User 1 writes to user 2, to nobody,
\* and without content.
MessageBodies ==
  {MessageBody({"toUserId", "content"}, 0, 2, "hello"),
   MessageBody({"toUserId", "content"}, 0, MissingUserId, "hello"),
   MessageBody({"toUserId"}, 0, 2, "")}

SocketIds == 1..MaxSockets

NextMessages ==
  \/ WsConnect
  \/ \E ws \in SocketIds : WsAuthenticate(ws, ws)
  \/ \E ws \in SocketIds : WsClosing(ws)
  \/ \E ws \in SocketIds : WsClose(ws)
  \/ \E r \in {1} :
       \/ \E u \in {Anonymous, 1}, body \in MessageBodies :
            SendMessageBegin(r, u, body)
       \/ SendMessageCreate(r)
       \/ SendMessageNotify(r)
       \/ \E ws \in SocketIds, data \in MessageBodies :
            WsMessageBegin(r, ws, data)
       \/ WsMessageCreate(r)
       \/ WsMessageNotify(r)
       \/ Recycle(r)

SpecMessages == Init /\ [][NextMessages]_vars

\* C19: every message_sent and every new_message frame on the wire names a
\* Message that is persisted together with its Notification: the frames
\* are sent after both have been stored.
C19_PersistenceBeforeDelivery ==
  \A i \in 1..Len(wire) :
    /\ \E m \in messages : m.id = wire[i].messageId
    /\ \E n \in notifications :
         n.type = "message" /\ n.relatedId = wire[i].messageId

\* The sender of a real-time message has its message_sent and the
\* recipient a new_message, and a REST send has pushed a new_message too.
C19_Witness ==
  /\ \E i \in 1..Len(wire) : wire[i].type = "message_sent"
  /\ \E i, k \in 1..Len(wire) :
       /\ wire[i].type = "new_message" /\ wire[k].type = "new_message"
       /\ wire[i].messageId # wire[k].messageId
  /\ \E r \in Reqs : req[r].pc = "done" /\ req[r].op = "sendMessage"
                     /\ req[r].res.code = 201

\* C20: a send (REST or real-time) of a text that is not empty from a user
\* to a user who has no open connection persists exactly one Message, unread, and exactly one
\* Notification for the recipient, of type message and related to that
\* Message, and tells the sender so: 201 over REST, message_sent on the
\* sender's socket if that is still open.  No step stores more than one
\* Message or one Notification.
C20_SendWithoutLiveChannels ==
  /\ [](\A r \in Reqs :
          (/\ req[r].pc = "done"
           /\ req[r].op \in {"sendMessage", "wsMessage"}
           /\ req[r].user \in DOMAIN users
           /\ {"toUserId", "content"} \subseteq req[r].arg.keys
           /\ req[r].arg.content # ""
           /\ req[r].arg.toUserId \in DOMAIN users
           /\ \A i \in 1..Len(userConnections(req[r].arg.toUserId)) :
                sockets[userConnections(req[r].arg.toUserId)[i]].readyState
                  # "open")
          => /\ req[r].op = "sendMessage" => req[r].res.code = 201
             /\ req[r].op = "wsMessage" =>
                  (sockets[req[r].id].readyState = "open"
                   => \E i \in 1..Len(wire) :
                        /\ wire[i].type = "message_sent"
                        /\ wire[i].ws = req[r].id
                        /\ wire[i].messageId = req[r].res.body.id)
             /\ Cardinality({m \in messages :
                               /\ m.id = req[r].res.body.id
                               /\ m.fromUserId = req[r].user
                               /\ m.toUserId = req[r].arg.toUserId
                               /\ m.content = req[r].arg.content
                               /\ m.isRead = FALSE}) = 1
             /\ Cardinality({m \in messages : m.id = req[r].res.body.id}) = 1
             /\ Cardinality({n \in notifications :
                               /\ n.relatedId = req[r].res.body.id
                               /\ n.type = "message"
                               /\ n.userId = req[r].arg.toUserId}) = 1
             /\ Cardinality({n \in notifications :
                               n.relatedId = req[r].res.body.id}) = 1)
  /\ [][/\ Cardinality(messages') <= Cardinality(messages) + 1
        /\ Cardinality(notifications') <= Cardinality(notifications) + 1]_vars

\* A REST send to user 2 has succeeded while user 2's only registered
\* socket was closing: nothing was pushed for the message.  A real-time
\* send has been acknowledged while user 2 had no connection at all.
C20_Witness ==
  \/ \E r \in Reqs :
       /\ req[r].pc = "done" /\ req[r].op = "sendMessage"
       /\ req[r].res.code = 201
       /\ req[r].arg.toUserId = 2
       /\ 2 \in DOMAIN activeConnections
       /\ \A i \in 1..Len(activeConnections[2]) :
            sockets[activeConnections[2][i]].readyState = "closing"
       /\ \A i \in 1..Len(wire) : wire[i].messageId # req[r].res.body.id
       /\ \E m \in messages : m.id = req[r].res.body.id
  \/ \E r \in Reqs :
       /\ req[r].pc = "done" /\ req[r].op = "wsMessage"
       /\ req[r].res.msg = "handled"
       /\ req[r].arg.toUserId = 2
       /\ 2 \notin DOMAIN activeConnections
       /\ 2 \notin DOMAIN sockets
       /\ \E i \in 1..Len(wire) : wire[i].type = "message_sent"

\* ---------------------------------------------- specification: read flags
\* Messages are sent over REST and over a socket and then marked read, the
\* same one again and again, by their recipient, by their sender and by a
\* client without session, along with their notifications and with ids
\* that nothing has.  Time passes in between.
MessageIds == 1..(MaxMessages + 1)

NextRead ==
  \/ Tick
  \/ WsConnect
  \/ \E ws \in {1} : WsAuthenticate(ws, ws)
  \/ \E r \in {1} :
       \/ \E u \in {1}, body \in MessageBodies : SendMessageBegin(r, u, body)
       \/ SendMessageCreate(r)
       \/ SendMessageNotify(r)
       \/ \E ws \in {1}, data \in MessageBodies : WsMessageBegin(r, ws, data)
       \/ WsMessageCreate(r)
       \/ WsMessageNotify(r)
       \/ \E u \in {Anonymous, 1, 2}, id \in MessageIds :
            MarkMessageRead(r, u, id)
       \/ \E u \in {Anonymous, 1, 2}, id \in MessageIds :
            MarkNotificationRead(r, u, id)
       \/ Recycle(r)

SpecRead == Init /\ [][NextRead]_vars

\* C21: markMessageRead and markNotificationRead of an existing id answer
\* 200 and leave the row with its read flag true and nothing else changed,
\* so that a second application changes nothing; of an absent id they
\* answer 404 and change nothing.
C21_MarkReadIdempotent ==
  [][\A r \in Reqs :
       (/\ Answered(r)
        /\ req'[r].op \in {"markMessageRead", "markNotificationRead"}
        /\ isAuthenticated(req'[r].user))
       => LET isMessage == req'[r].op = "markMessageRead"
              table == IF isMessage THEN messages ELSE notifications
              tableAfter == IF isMessage THEN messages' ELSE notifications'
              other == IF isMessage THEN notifications ELSE messages
              otherAfter == IF isMessage THEN notifications' ELSE messages'
              found == {x \in table : x.id = req'[r].id}
          IN /\ otherAfter = other
             /\ messageIdCounter' = messageIdCounter
             /\ notificationIdCounter' = notificationIdCounter
             /\ UNCHANGED <<users, jobs, applications, ratings, live>>
             /\ IF found = {}
                  THEN /\ req'[r].res.code = 404
                       /\ tableAfter = table
                  ELSE /\ req'[r].res.code = 200
                       /\ \A x \in found :
                            /\ tableAfter =
                                 (table \ {x}) \cup {[x EXCEPT !.isRead = TRUE]}
                            /\ req'[r].res.body = [x EXCEPT !.isRead = TRUE]
                            /\ x.isRead => tableAfter = table]_vars

\* A message that was already read has been marked read once more with
\* success, and so has a notification; the store holds both as read.
C21_Witness ==
  \E r \in Reqs :
    /\ req[r].pc = "done"
    /\ req[r].op = "markNotificationRead"
    /\ req[r].res.code = 200
    /\ req[r].loc.isRead
    /\ \E m \in messages : m.isRead /\ m.id = req[r].loc.relatedId
    /\ \E n \in notifications : n.isRead /\ n.id = req[r].id

\* ------------------------------------------ specification: conversations
\* Users 1 and 2 write to each other, to themselves and to user 3, in the
\* same instant or at different times, and read their conversations with
\* users 1, 2 and 3 and the list of all their messages.
ConversationBodies ==
  {MessageBody({"toUserId", "content"}, 0, to, "hello") : to \in {1, 2, 3}}

ConversationUsers == {1, 2, 3}

NextConversation ==
  \/ Tick
  \/ \E r \in {1} :
       \/ \E u \in {1, 2}, body \in ConversationBodies :
            SendMessageBegin(r, u, body)
       \/ SendMessageCreate(r)
       \/ SendMessageNotify(r)
       \/ \E u \in {Anonymous, 1, 2}, other \in {0} \cup ConversationUsers :
            GetMessages(r, u, other)
       \/ Recycle(r)

SpecConversation == Init /\ [][NextConversation]_vars

Range(list) == {list[i] : i \in 1..Len(list)}

\* C22: getConversation(A, B) returns, once each, the messages whose sender
\* and recipient are A and B in either direction and no other message, and
\* getConversation(B, A) returns the same messages; so does the route.
C22_ConversationIsSymmetricSet ==
  /\ \A A, B \in ConversationUsers :
       \A list \in getConversation(A, B) :
         /\ Range(list) = {m \in messages : {m.fromUserId, m.toUserId} = {A, B}}
         /\ Len(list) = Cardinality(Range(list))
         /\ \A back \in getConversation(B, A) : Range(back) = Range(list)
  /\ \A r \in Reqs :
       (/\ req[r].pc = "done" /\ req[r].op = "getMessages"
        /\ req[r].res.code = 200 /\ req[r].id # 0)
       => Range(req[r].res.body.list) =
            {m \in messages :
               {m.fromUserId, m.toUserId} = {req[r].user, req[r].id}}

\* User 2 has read the conversation with user 1 and got one message of
\* each direction.
C22_Witness ==
  \E r \in Reqs :
    /\ req[r].pc = "done" /\ req[r].op = "getMessages"
    /\ req[r].user = 2 /\ req[r].id = 1
    /\ \E i, k \in 1..Len(req[r].res.body.list) :
         /\ req[r].res.body.list[i].fromUserId = 1
         /\ req[r].res.body.list[k].fromUserId = 2

\* C23: with DatabaseStorage, the storage the server uses, the conversation
\* that GET /api/messages?userId= returns is ordered by creation time
\* ascending.
C23_ConversationOldestFirst ==
  \A r \in Reqs :
    (/\ impl = "db"
     /\ req[r].pc = "done" /\ req[r].op = "getMessages"
     /\ req[r].res.code = 200 /\ req[r].id # 0)
    => \A i, k \in 1..Len(req[r].res.body.list) :
         i < k => req[r].res.body.list[i].createdAt
                    <= req[r].res.body.list[k].createdAt

\* C24: the list of a user's messages holds every message the user sent or
\* received and no other, most recent first, under both storages.
C24_UserMessagesNewestFirst ==
  \A r \in Reqs :
    (/\ req[r].pc = "done" /\ req[r].op = "getMessages"
     /\ req[r].res.code = 200 /\ req[r].id = 0)
    => /\ Range(req[r].res.body.list) =
            {m \in messages : req[r].user \in {m.fromUserId, m.toUserId}}
       /\ \A other \in ConversationUsers :
            \A list \in getConversation(req[r].user, other) :
              Range(list) \subseteq Range(req[r].res.body.list)
       /\ \A i, k \in 1..Len(req[r].res.body.list) :
            i < k => req[r].res.body.list[i].createdAt
                       >= req[r].res.body.list[k].createdAt

\* ------------------------------------- specification: connection registry
\* Two sockets authenticate as user 1 or as user 2, again and under
\* another id, start closing and close, while user 1 writes to user 2
\* over REST, one request at a time.
RegistryBodies == {MessageBody({"toUserId", "content"}, 0, 2, "hello")}

NextRegistry ==
  \/ WsConnect
  \/ \E ws \in SocketIds, u \in {1, 2} : WsAuthenticate(ws, u)
  \/ \E ws \in SocketIds : WsClosing(ws)
  \/ \E ws \in SocketIds : WsClose(ws)
  \/ \E r \in {1} :
       \/ \E body \in RegistryBodies : SendMessageBegin(r, 1, body)
       \/ SendMessageCreate(r)
       \/ SendMessageNotify(r)
       \/ Recycle(r)

SpecRegistry == Init /\ [][NextRegistry]_vars

Registered(ws) ==
  \E u \in DOMAIN activeConnections :
    \E i \in 1..Len(activeConnections[u]) : activeConnections[u][i] = ws

\* C25: a socket whose close event has been handled is registered under no
\* user id, whatever authenticate frames it sent before.
C25_ClosedSocketsAreUnregistered ==
  \A ws \in DOMAIN sockets :
    sockets[ws].readyState = "closed" => ~Registered(ws)

\* The frames a step has put on the wire
Sent == SubSeq(wire', Len(wire) + 1, Len(wire'))

\* C26: notifyUser returns true exactly when at least one connection got
\* the payload; checked where POST /api/messages calls it.
C26_NotifyReportsDelivery ==
  [][\A r \in Reqs :
       (req[r].pc = "createNotification" /\ req'[r].pc = "done")
       => (notifyUser(req[r].arg.toUserId) <=> Len(Sent) > 0)]_vars

\* C27: a notification goes to every open socket registered for the user,
\* to no socket that is not open and to no socket that is registered for
\* other users only; so do the new_message frames of the socket handler.
C27_NotifyReachesOpenRegisteredOnly ==
  [][\A r \in Reqs :
       (/\ req[r].pc \in {"createNotification", "ws.createNotification"}
        /\ req'[r].pc = "done")
       => LET to == req[r].arg.toUserId
              pushed == {Sent[i].ws : i \in {k \in 1..Len(Sent) :
                                               Sent[k].type = "new_message"}}
          IN /\ pushed =
                  {ws \in DOMAIN sockets :
                     /\ sockets[ws].readyState = "open"
                     /\ \E i \in 1..Len(userConnections(to)) :
                          userConnections(to)[i] = ws}
             /\ \A i \in 1..Len(Sent) :
                  Sent[i].type = "new_message"
                  => /\ Sent[i].messageId = req[r].loc
                     /\ Sent[i].fromUserId = req[r].user]_vars

\* Socket 1 is user 1's and socket 2 user 2's.  A first message to user 2
\* was pushed to socket 2 and not to socket 1; the second, sent once
\* socket 2 had begun to close, was answered 201 and pushed to nobody.
C27_Witness ==
  \E r \in Reqs :
    /\ req[r].pc = "done" /\ req[r].op = "sendMessage" /\ req[r].res.code = 201
    /\ req[r].res.body.id = 2
    /\ userConnections(1) = <<1>> /\ userConnections(2) = <<2>>
    /\ sockets[1].readyState = "open" /\ sockets[2].readyState = "closing"
    /\ \E i \in 1..Len(wire) :
         wire[i].type = "new_message" /\ wire[i].ws = 2 /\ wire[i].messageId = 1
    /\ \A i \in 1..Len(wire) :
         /\ wire[i].messageId # 2
         /\ wire[i].type = "new_message" => wire[i].ws # 1

\* -------------------------- specification: connection registry, concurrent
\* Both sockets are user 2's.  They authenticate, write to user 2 and
\* close while user 1 writes to user 2 over REST; the handlers of the
\* sends interleave at their awaits with each other and with the
\* authenticate and close handlers.
NextRegistryRace ==
  \/ WsConnect
  \/ \E ws \in SocketIds : WsAuthenticate(ws, 2)
  \/ \E ws \in SocketIds : WsClosing(ws)
  \/ \E ws \in SocketIds : WsClose(ws)
  \/ \E r \in Reqs :
       \/ \E body \in RegistryBodies : SendMessageBegin(r, 1, body)
       \/ SendMessageCreate(r)
       \/ SendMessageNotify(r)
       \/ \E ws \in SocketIds, data \in RegistryBodies :
            WsMessageBegin(r, ws, data)
       \/ WsMessageCreate(r)
       \/ WsMessageNotify(r)
       \/ Recycle(r)

SpecRegistryRace == Init /\ [][NextRegistryRace]_vars

Registrations(u, ws) ==
  Cardinality({i \in 1..Len(userConnections(u)) : userConnections(u)[i] = ws})

\* C28: in every interleaving of authenticate, close and notify, a socket
\* that has authenticated for a user and has not closed is in the user's
\* connections, a registration goes only when the close of its socket is
\* handled, and no frame is sent to a socket that is not open.
C28_NoLostRegistrationNoLateDelivery ==
  /\ [](\A ws \in DOMAIN sockets :
          (sockets[ws].userId # 0 /\ sockets[ws].readyState # "closed")
          => Registrations(sockets[ws].userId, ws) > 0)
  /\ [][/\ \A ws \in DOMAIN sockets, u \in DOMAIN activeConnections :
             LET after == IF u \in DOMAIN activeConnections'
                            THEN Cardinality({i \in 1..Len(activeConnections'[u]) :
                                                activeConnections'[u][i] = ws})
                            ELSE 0
             IN after < Registrations(u, ws)
                => /\ sockets[ws].readyState # "closed"
                   /\ sockets'[ws].readyState = "closed"
        /\ \A i \in 1..Len(Sent) : sockets[Sent[i].ws].readyState = "open"]_vars

\* Both sockets authenticated as user 2; socket 1 has closed and is gone
\* from the registry after it got a frame, socket 2 is open, registered
\* and got a new_message, and a send over REST is between two awaits.
C28_Witness ==
  /\ DOMAIN sockets = {1, 2}
  /\ sockets[1].userId = 2 /\ sockets[1].readyState = "closed"
  /\ sockets[2].userId = 2 /\ sockets[2].readyState = "open"
  /\ userConnections(2) = <<2>>
  /\ \E i \in 1..Len(wire) : wire[i].ws = 2 /\ wire[i].type = "new_message"
  /\ \E i \in 1..Len(wire) : wire[i].ws = 1
  /\ \E r \in Reqs : req[r].pc = "createNotification"

\* ------------------------------------- specification: the two ways to send
\* User 1 writes to user 2, a text and an empty text, over REST and over
\* socket 1; socket 2 is user 2's.  One send at a time.
SocketSendBodies ==
  {MessageBody({"toUserId", "content"}, 0, 2, content) :
     content \in {"hello", ""}}

NextSocketSend ==
  \/ WsConnect
  \/ \E ws \in SocketIds : WsAuthenticate(ws, ws)
  \/ \E ws \in SocketIds : WsClosing(ws)
  \/ \E ws \in SocketIds : WsClose(ws)
  \/ \E r \in {1} :
       \/ \E body \in SocketSendBodies : SendMessageBegin(r, 1, body)
       \/ SendMessageCreate(r)
       \/ SendMessageNotify(r)
       \/ \E data \in SocketSendBodies : WsMessageBegin(r, 1, data)
       \/ WsMessageCreate(r)
       \/ WsMessageNotify(r)
       \/ Recycle(r)

SpecSocketSend == Init /\ [][NextSocketSend]_vars

\* C29: a message frame with toUserId and content on an authenticated
\* socket ends as the REST send of the same sender, recipient and content
\* ends: one new Message, unread, and one Notification of type message
\* related to it are in the store and the Message's new_message went to
\* the recipient's open sockets; the frame's sender also got message_sent.
C29_SocketSendEqualsRestSend ==
  [][\A r \in Reqs :
       (/\ Answered(r)
        /\ req'[r].op \in {"sendMessage", "wsMessage"}
        /\ req'[r].user \in DOMAIN users
        /\ {"toUserId", "content"} \subseteq req'[r].arg.keys
        /\ req'[r].arg.toUserId \in DOMAIN users)
       => /\ req'[r].op = "sendMessage" => req'[r].res.code = 201
          /\ req'[r].op = "wsMessage" => req'[r].res.msg = "handled"
          /\ LET id == req'[r].res.body.id
                 to == req'[r].arg.toUserId
             IN /\ {m \in messages' : m.id = id} =
                     {[id |-> id, fromUserId |-> req'[r].user, toUserId |-> to,
                       content |-> req'[r].arg.content, isRead |-> FALSE,
                       createdAt |-> now]}
                /\ Cardinality({n \in notifications' : n.relatedId = id}) = 1
                /\ \A n \in notifications' :
                     n.relatedId = id
                     => n.type = "message" /\ n.userId = to /\ ~n.isRead
                /\ Cardinality(messages') = messageIdCounter' - 1
                /\ {Sent[i].ws : i \in {k \in 1..Len(Sent) :
                                         /\ Sent[k].type = "new_message"
                                         /\ Sent[k].messageId = id
                                         /\ Sent[k].fromUserId = req'[r].user}} =
                     {ws \in DOMAIN sockets :
                        /\ sockets[ws].readyState = "open"
                        /\ Registrations(to, ws) > 0}
                /\ (req'[r].op = "wsMessage"
                    /\ sockets[req'[r].id].readyState = "open")
                   => \E i \in 1..Len(Sent) :
                        /\ Sent[i].type = "message_sent"
                        /\ Sent[i].ws = req'[r].id
                        /\ Sent[i].messageId = id]_vars

\* C30: a Message, once created, keeps its id, content, fromUserId,
\* toUserId and creation time in every step and is never removed; its read
\* flag is the only field that changes, and only from false to true.
C30_MessagesAreImmutable ==
  [][\A m \in messages :
       /\ Cardinality({x \in messages' : x.id = m.id}) = 1
       /\ \/ m \in messages'
          \/ ~m.isRead /\ [m EXCEPT !.isRead = TRUE] \in messages']_vars

\* Message 1 was created at time 0 and has been marked read later, by a
\* request that found it read already; message 2 was created after it
\* and is unread.
C30_Witness ==
  \E r \in Reqs, m, x \in messages :
    /\ req[r].pc = "done" /\ req[r].op = "markMessageRead"
    /\ req[r].res.code = 200 /\ req[r].id = m.id /\ req[r].loc.isRead
    /\ m.isRead /\ m.createdAt = 0
    /\ ~x.isRead /\ x.createdAt > 0
    /\ now > x.createdAt

\* ------------------------------------ specification: application lifecycle
\* Requests served one at a time, while time passes.  Employer 3 posts a
\* job and worker 1 applies; the employer, another employer and the worker
\* send PUT /api/applications/:id with every status of the enumeration and
\* with a cover letter and an updatedAt of their own, for the application
\* and for an id that no application has.
LifecyclePatches ==
  {ApplicationBody({"status"}, 0, 0, Undefined, st) :
     st \in ApplicationStatusValues}
  \cup {[keys |-> {"coverLetter", "updatedAt"}, jobId |-> 0, workerId |-> 0,
         coverLetter |-> "edited", status |-> Undefined, updatedAt |-> 0]}

NextLifecycle ==
  \/ Tick
  \/ \E r \in {1} :
       \/ CreateJob(r, 3, PlainJobBody)
       \/ SubmitApplicationBegin(r, 1, PlainApplicationBody(1))
       \/ SubmitApplicationCheckExisting(r)
       \/ SubmitApplicationCreate(r)
       \/ \E u \in {1, 3, 4}, id \in ApplicationIds, patch \in LifecyclePatches :
            UpdateApplicationBegin(r, u, id, patch)
       \/ UpdateApplicationGetJob(r)
       \/ UpdateApplicationWrite(r)
       \/ Recycle(r)

SpecLifecycle == Init /\ [][NextLifecycle]_vars

\* C32: a successful updateApplication leaves the Application with the
\* fields of the patch, its other fields as they were and updatedAt at the
\* current time, not earlier than before and whatever updatedAt the patch
\* carries; for an id that no application has the answer is 404 and
\* nothing changes.
C32_UpdateMergesAndStamps ==
  [][\A r \in Reqs :
       (/\ Answered(r)
        /\ req'[r].op = "updateApplication"
        /\ isAuthenticated(req'[r].user))
       => LET patch == req'[r].arg
              found == {a \in applications : a.id = req'[r].id}
          IN IF found = {}
               THEN req'[r].res.code = 404 /\ UNCHANGED store
             ELSE req'[r].res.code = 200
                  => \E a \in found :
                       LET b == req'[r].res.body
                       IN /\ applications' = (applications \ {a}) \cup {b}
                          /\ b.id = a.id /\ b.appliedAt = a.appliedAt
                          /\ b.jobId = a.jobId /\ b.workerId = a.workerId
                          /\ b.status = IF "status" \in patch.keys
                                          THEN patch.status ELSE a.status
                          /\ b.coverLetter = IF "coverLetter" \in patch.keys
                                               THEN patch.coverLetter
                                               ELSE a.coverLetter
                          /\ b.updatedAt = now
                          /\ b.updatedAt >= a.updatedAt]_vars

\* The worker's application of time 0 was updated later with a patch that
\* carries updatedAt 0: the cover letter is the patch's, updatedAt is the
\* time of the update.
C32_Witness ==
  \E r \in Reqs :
    /\ req[r].pc = "done" /\ req[r].op = "updateApplication"
    /\ req[r].res.code = 200
    /\ "updatedAt" \in req[r].arg.keys /\ req[r].arg.updatedAt = 0
    /\ req[r].loc.updatedAt = 0
    /\ req[r].res.body.coverLetter = "edited"
    /\ req[r].res.body.updatedAt > 0
    /\ req[r].res.body \in applications

\* C33: whatever the status of an Application, an updateApplication with a
\* status by the employer who owns its job is not refused: it ends with
\* 200 and the Application in the status asked for.
C33_NoStatusIsTerminal ==
  [][\A r \in Reqs :
       (/\ Answered(r)
        /\ req'[r].op = "updateApplication"
        /\ "status" \in req'[r].arg.keys
        /\ \E a \in applications : \E j \in jobs :
             /\ a.id = req'[r].id /\ j.id = a.jobId
             /\ j.employerId = req'[r].user)
       => /\ req'[r].res.code = 200
          /\ \E a \in applications' :
               a.id = req'[r].id /\ a.status = req'[r].arg.status]_vars

\* An accepted application has been moved back to pending by the employer.
C33_Witness ==
  \E r \in Reqs :
    /\ req[r].pc = "done" /\ req[r].op = "updateApplication"
    /\ req[r].res.code = 200 /\ req[r].user = 3
    /\ req[r].loc.status = "accepted"
    /\ req[r].res.body.status = "pending"

\* ------------------------------------------- specification: a third role
\* Requests served one at a time.  An account of type admin is registered;
\* employer 3 posts a job, worker 1 applies, and the admin, another worker
\* and another employer send a status to PUT /api/applications/:id.
AdminBodies == {UserBody(RegisterKeys, 5, 5, UserType.ADMIN, 0)}

AdminPatches ==
  {ApplicationBody({"status"}, 0, 0, Undefined, ApplicationStatus.ACCEPTED)}

NextAdmin ==
  \E r \in {1} :
    \/ \E body \in AdminBodies : RegisterBegin(r, body)
    \/ RegisterCheckUsername(r)
    \/ RegisterCheckEmail(r)
    \/ RegisterCreate(r)
    \/ CreateJob(r, 3, PlainJobBody)
    \/ SubmitApplicationBegin(r, 1, PlainApplicationBody(1))
    \/ SubmitApplicationCheckExisting(r)
    \/ SubmitApplicationCreate(r)
    \/ \E u \in {1, 2, 3, 4, 5}, id \in ApplicationIds, patch \in AdminPatches :
         UpdateApplicationBegin(r, u, id, patch)
    \/ UpdateApplicationGetJob(r)
    \/ UpdateApplicationWrite(r)
    \/ Recycle(r)

SpecAdmin == Init /\ [][NextAdmin]_vars

\* C34: an Application changes only in a step of an updateApplication
\* request of the employer who owns its job or of the worker who owns it.
C34_OnlyOwnersUpdateApplications ==
  [][\A a \in applications :
       a \notin applications'
       => \E r \in Reqs :
            /\ req[r].op = "updateApplication"
            /\ req[r].id = a.id
            /\ req'[r] # req[r]
            /\ \/ a.workerId = req[r].user
               \/ \E j \in jobs : j.id = a.jobId /\ j.employerId = req[r].user]_vars

\* ------------------------------------------ specification: owning a job
\* Requests served one at a time.  Employers 3 and 4 post jobs and worker
\* 1 applies; the employers, the worker and a client without session
\* update jobs (a status, a new owner) and delete them, also jobs that do
\* not exist.
OwnerPatches ==
  {JobPatch({"status"}, JobStatus.IN_PROGRESS, 0),
   JobPatch({"employerId"}, Undefined, 4)}

NextOwner ==
  \E r \in {1} :
    \/ \E u \in Employers : CreateJob(r, u, PlainJobBody)
    \/ \E j \in JobIds : SubmitApplicationBegin(r, 1, PlainApplicationBody(j))
    \/ SubmitApplicationCheckExisting(r)
    \/ SubmitApplicationCreate(r)
    \/ \E u \in {Anonymous, 1, 3, 4}, id \in JobIds \cup {MissingJobId},
          patch \in OwnerPatches : UpdateJobBegin(r, u, id, patch)
    \/ UpdateJobWrite(r)
    \/ \E u \in {Anonymous, 1, 3, 4}, id \in JobIds \cup {MissingJobId} :
         DeleteJobBegin(r, u, id)
    \/ DeleteJobApplications(r)
    \/ DeleteJobRow(r)
    \/ Recycle(r)

SpecOwner == Init /\ [][NextOwner]_vars

\* C35: a Job changes or goes, and its Applications go, only in a step of
\* an update or delete request of the user who is the job's employer; a
\* request of another user is answered 403, or 404 if the job does not
\* exist, and changes neither jobs nor applications.
C35_OnlyTheOwnerChangesAJob ==
  [][/\ \A j \in jobs :
          j \notin jobs'
          => \E r \in Reqs :
               /\ req[r].op \in {"updateJob", "deleteJob"}
               /\ req[r].id = j.id /\ req'[r] # req[r]
               /\ req[r].user = j.employerId
     /\ \A a \in applications :
          a \notin applications'
          => \E r \in Reqs : \E j \in jobs :
               /\ req[r].op = "deleteJob"
               /\ req[r].id = a.jobId /\ req'[r] # req[r]
               /\ j.id = a.jobId /\ req[r].user = j.employerId
     /\ \A r \in Reqs :
          (/\ Answered(r)
           /\ req'[r].op \in {"updateJob", "deleteJob"}
           /\ isAuthenticated(req'[r].user)
           /\ \A j \in jobs :
                j.id = req'[r].id => j.employerId # req'[r].user)
          => /\ req'[r].res.code =
                  IF \E j \in jobs : j.id = req'[r].id THEN 403 ELSE 404
             /\ jobs' = jobs /\ applications' = applications]_vars

\* Employer 4 was refused the deletion of employer 3's job, which is still
\* there with its application, and employer 3 has handed job 2 to employer 4.
C35_Witness ==
  \E r \in Reqs :
    /\ req[r].pc = "done" /\ req[r].op = "deleteJob"
    /\ req[r].user = 4 /\ req[r].res.code = 403
    /\ \E j \in jobs : j.id = req[r].id /\ j.employerId = 3
    /\ \E a \in applications : a.jobId = req[r].id
    /\ jobIdCounter > 2

\* ------------------------------------- specification: whose row it is
\* Requests served one at a time.  Every body names somebody else in its
\* identity field: the job employer 4, the application worker 2, the
\* rating and the message user 2 as their author.  Workers 1, employer 3
\* and a client without session send them.
IdentityJobBodies == {JobPatch({"title", "employerId"}, Undefined, 4)}
IdentityApplicationBodies ==
  {ApplicationBody({"jobId", "workerId"}, 1, 2, Undefined, Undefined)}
IdentityRatingBodies ==
  {RatingBody({"fromUserId", "toUserId", "rating"}, 2, 4, 0, 5)}
IdentityMessageBodies ==
  {MessageBody({"fromUserId", "toUserId", "content"}, 2, 4, "hello")}
IdentityUsers == {Anonymous, 1, 3}

NextIdentity ==
  \E r \in {1} :
    \/ \E u \in IdentityUsers, body \in IdentityJobBodies : CreateJob(r, u, body)
    \/ \E u \in IdentityUsers, body \in IdentityApplicationBodies :
         SubmitApplicationBegin(r, u, body)
    \/ SubmitApplicationCheckExisting(r)
    \/ SubmitApplicationCreate(r)
    \/ \E u \in IdentityUsers, body \in IdentityRatingBodies :
         SubmitRatingBegin(r, u, body)
    \/ SubmitRatingCreateWide(r)
    \/ UpdateUserRatingRead(r)
    \/ UpdateUserRatingWrite(r)
    \/ \E u \in IdentityUsers, body \in IdentityMessageBodies :
         SendMessageBegin(r, u, body)
    \/ SendMessageCreate(r)
    \/ SendMessageNotify(r)
    \/ Recycle(r)

SpecIdentity == Init /\ [][NextIdentity]_vars

\* The rows of rows' under an id that rows does not hold
Created(rows, rowsAfter) ==
  {row \in rowsAfter : \A old \in rows : old.id # row.id}

\* C36: every row that a request creates carries the id of the request's
\* authenticated user in its identity field, whatever the body said: an
\* application as workerId, and that user is a worker; a job as
\* employerId; a rating and a message of POST /api/messages as fromUserId.
C36_IdentityComesFromTheSession ==
  [][/\ \A row \in Created(applications, applications') :
          \E r \in Reqs :
            /\ req'[r].op = "submitApplication" /\ req'[r] # req[r]
            /\ row.workerId = req'[r].user
            /\ isAuthenticated(row.workerId)
            /\ users[row.workerId].userType = UserType.WORKER
     /\ \A row \in Created(jobs, jobs') :
          \E r \in Reqs :
            /\ req'[r].op = "createJob" /\ req'[r] # req[r]
            /\ row.employerId = req'[r].user
            /\ isAuthenticated(row.employerId)
     /\ \A row \in Created(ratings, ratings') :
          \E r \in Reqs :
            /\ req'[r].op = "submitRating" /\ req'[r] # req[r]
            /\ row.fromUserId = req'[r].user
            /\ isAuthenticated(row.fromUserId)
     /\ \A row \in Created(messages, messages') :
          \A r \in Reqs :
            (req'[r].op = "sendMessage" /\ req'[r] # req[r])
            => /\ row.fromUserId = req'[r].user
               /\ isAuthenticated(row.fromUserId)]_vars

\* A job, an application, a rating and a message were created from bodies
\* that named users 4 and 2; they belong to users 3 and 1.
C36_Witness ==
  /\ \E j \in jobs : j.employerId = 3
  /\ \E a \in applications : a.workerId = 1
  /\ \E x \in ratings : x.fromUserId = 1
  /\ \E m \in messages : m.fromUserId = 3
  /\ \A r \in Reqs : req[r].pc \in {"idle", "done"}

\* ------------------------------------------ specification: message frames
\* Two sockets connect; each may authenticate as the user of its number and
\* sends message frames: a complete one for user 2, one without toUserId
\* and one without content.
FrameBodies ==
  {MessageBody({"toUserId", "content"}, 0, 2, "hello"),
   MessageBody({"content"}, 0, 0, "hello"),
   MessageBody({"toUserId"}, 0, 2, "")}

NextFrames ==
  \/ WsConnect
  \/ \E ws \in SocketIds : WsAuthenticate(ws, ws)
  \/ \E r \in Reqs :
       \/ \E ws \in SocketIds, data \in FrameBodies : WsMessageBegin(r, ws, data)
       \/ WsMessageCreate(r)
       \/ WsMessageNotify(r)
       \/ Recycle(r)

SpecFrames == Init /\ [][NextFrames]_vars

\* The frame that request r handles came on a socket that has not
\* authenticated, or lacks toUserId or content
Unacceptable(s) ==
  /\ s.op = "wsMessage"
  /\ \/ s.user = 0
     \/ ~({"toUserId", "content"} \subseteq s.arg.keys)

\* C37: a message frame on a socket that has not authenticated, or one
\* without toUserId or without content, is finished by the step that
\* receives it, and that step creates no message, no notification and
\* sends nothing to any socket.
C37_UnacceptableFramesDoNothing ==
  [][\A r \in Reqs :
       (req'[r] # req[r] /\ Unacceptable(req'[r]))
       => /\ req'[r].pc \in {"idle", "done"}
          /\ messages' = messages
          /\ notifications' = notifications
          /\ wire' = wire]_vars

\* Socket 2 is registered for user 2; a complete frame for user 2 that came
\* on the unauthenticated socket 1 and a frame without toUserId that came on
\* socket 2 have both been handled.
C37_Witness ==
  /\ 2 \in DOMAIN activeConnections
  /\ \E r \in Reqs :
       /\ req[r].pc = "done" /\ req[r].op = "wsMessage" /\ req[r].user = 0
       /\ {"toUserId", "content"} \subseteq req[r].arg.keys
  /\ \E r \in Reqs :
       /\ req[r].pc = "done" /\ req[r].op = "wsMessage" /\ req[r].user = 2
       /\ "toUserId" \notin req[r].arg.keys

\* C38: the connections of a user are a set: no socket is held twice under
\* a user id and no user id is held with no socket.
C38_ConnectionsAreASet ==
  \A u \in DOMAIN activeConnections :
    LET conns == activeConnections[u]
    IN /\ Len(conns) > 0
       /\ \A i, k \in 1..Len(conns) : conns[i] = conns[k] => i = k

\* C39: whenever no send is under way, every stored message has exactly one
\* notification of type message that carries its id and is addressed to
\* its recipient, and every notification of type message carries the id of
\* a stored message.
C39_OneNotificationPerMessage ==
  (\A r \in Reqs : ~InFlight(r))
  => /\ \A m \in messages :
          Cardinality({n \in notifications :
                         /\ n.type = "message" /\ n.relatedId = m.id
                         /\ n.userId = m.toUserId}) = 1
     /\ \A n \in notifications :
          n.type = "message" => \E m \in messages : m.id = n.relatedId

\* Two messages are stored, one sent with POST /api/messages and one over a
\* socket, and no send is under way.
C39_Witness ==
  /\ \A r \in Reqs : ~InFlight(r)
  /\ Cardinality(messages) = 2
  /\ \E r \in Reqs : req[r].pc = "done" /\ req[r].op = "wsMessage"
  /\ \E m \in messages : m.fromUserId = 1 /\ m.id = 1
  /\ wire # <<>>

\* C40: MemStorage and DatabaseStorage answer alike; here, for the payload
\* that a request is about to hand to storage.createApplication, both
\* create an application of the same status.
C40_CreateApplicationAgrees ==
  \A r \in Reqs :
    req[r].pc = "createApplication"
    => memCreateApplication(req[r].arg, applicationIdCounter).status
         = dbCreateApplication(req[r].arg, applicationIdCounter).status

\* -------------------------------------------- specification: the session
\* One client, its requests served one at a time: it registers account 5
\* with a password of its own, logs in as the initial user 1, as account 5
\* and as nobody known, with the right password, a wrong one and none, logs
\* out and asks who it is.
OtherPassword == "other"
UnknownUsername == 9

SessionRegisterBodies ==
  {[UserBody(RegisterKeys, 5, 5, UserType.WORKER, 0) EXCEPT !.password = OtherPassword]}

LoginBody(keys, username, password) ==
  [keys |-> keys, username |-> username, password |-> password]

LoginBodies ==
  {LoginBody({"username", "password"}, name, password) :
     name \in {1, 5, UnknownUsername},
     password \in {InitialPassword, OtherPassword}}
  \cup {LoginBody({"username"}, 1, Undefined)}

NextSession ==
  \E r \in {1} :
    \/ \E body \in SessionRegisterBodies : RegisterBegin(r, body)
    \/ RegisterCheckUsername(r)
    \/ RegisterCheckEmail(r)
    \/ \E salt \in Salts : RegisterCreateSalted(r, salt)
    \/ \E body \in LoginBodies : LoginBegin(r, body)
    \/ LoginAuthenticate(r)
    \/ Logout(r)
    \/ GetUser(r)
    \/ Recycle(r)

SpecSession == Init /\ [][NextSession]_vars

\* The password that the stored hash of user id was derived from
passwordOf(id) == users[id].password.hashed[1]

\* The login that request s asks for names a user and that user's password
RightCredentials(s) ==
  /\ {"username", "password"} \subseteq s.arg.keys
  /\ \E id \in DOMAIN users :
       users[id].username = s.arg.username /\ passwordOf(id) = s.arg.password

\* C31: a register answered 201 and a login answered 200 leave the session
\* with that user, a logout leaves it with none, nothing else changes it;
\* GET /api/user answers the session's user, or 401 when it has none; a
\* login is answered 200 exactly when the username is known and the
\* password is that user's, and 401 otherwise, the session staying as it
\* was.
C31_SessionFollowsRegisterLoginLogout ==
  [][/\ \A r \in Reqs :
          Answered(r) =>
            LET s == req'[r]
            IN /\ (s.op = "register" /\ s.res.code = 201)
                    => /\ session' = s.user
                       /\ users'[s.user].username = s.arg.username
               /\ s.op = "login"
                    => IF RightCredentials(s)
                         THEN /\ s.res.code = 200
                              /\ session' = s.user
                              /\ users[s.user].username = s.arg.username
                              /\ s.res.body = users[s.user]
                         ELSE s.res.code = 401 /\ session' = session
               /\ s.op = "logout" => s.res.code = 200 /\ session' = 0
               /\ s.op = "getUser"
                    => IF session = 0
                         THEN s.res.code = 401
                         ELSE s.res.code = 200 /\ s.res.body = users[session]
     /\ session' # session
          => \E r \in Reqs :
               /\ Answered(r)
               /\ \/ req'[r].op = "register" /\ req'[r].res.code = 201
                  \/ req'[r].op = "login" /\ req'[r].res.code = 200
                  \/ req'[r].op = "logout"]_vars

\* Account 5 has registered and logged out, and a login with the wrong
\* password has just been refused: the session has no user.
C31_Witness ==
  \E r \in Reqs :
    /\ req[r].pc = "done" /\ req[r].op = "login" /\ req[r].res.code = 401
    /\ req[r].arg.username = 5 /\ req[r].arg.password = InitialPassword
    /\ 5 \in DOMAIN users /\ users[5].password.salt = 2
    /\ session = 0

====
